---- MODULE Spec2Model ----
(***************************************************************************)
(* Match / leg state machine and scoring engine of the dart scoring        *)
(* backend: MatchManager (backend/src/modules/matchManager.ts), the X01    *)
(* validator (backend/src/modules/validator.ts) and the statistics tracker *)
(* (backend/src/modules/statsTracker.ts).                                  *)
(*                                                                         *)
(* One call of a public MatchManager method is one action.  A call that    *)
(* throws leaves `match` as it found it and records the failure in         *)
(* `result`; a call that returns records what it returned.                 *)
(***************************************************************************)
EXTENDS Integers, Sequences, FiniteSets, TLC

VARIABLES
    match,          \* this.match: NoMatch (null) or the Match object
    autosaveTimer,  \* this.autosaveTimer !== null
    clock,          \* Date.now(): advances from call to call
    result,         \* the last call and its outcome, as its caller sees it
    probe,          \* a pure function called on its own: arguments and result
    db,             \* this.db: NoDb (null) or the tables of the database
    calls,          \* the calls awaiting a database run, in the order made
    emitted         \* the events emitted by the calls that await the database

\* the database, the calls in flight on it and what they emitted
persistence == <<db, calls, emitted>>

vars == <<match, autosaveTimer, clock, result, probe, persistence>>

----------------------------------------------------------------------------
(* Bounds of the model *)

\* createMatch is called with 0, 1 or MaxPlayers players
MaxPlayers == 2
\* createMatch is called with legsToWin 1 or MaxLegsToWin
MaxLegsToWin == 2
\* the calls that return are made at the times 1 .. MaxClock
MaxClock == 7
\* the validator is called on its own with scores up to MaxProbeScore
MaxProbeScore == 3
\* the statistics tracker replays histories of up to MaxReplayThrows darts
MaxReplayThrows == 3
\* ... and up to MaxReplayLegs legs won
MaxReplayLegs == 2
\* checkout suggestions are asked for the scores -2 .. MaxCheckoutScore
MaxCheckoutScore == 175
\* with a database, the calls are made at the times 1 .. MaxDbCalls
MaxDbCalls == 7
\* ... where calls overlap, at the times 1 .. MaxOverlapCalls
MaxOverlapCalls == 6
\* ... at most MaxInFlight calls await the database at a time
MaxInFlight == 2
\* ... and at most MaxDbFailures database runs fail
MaxDbFailures == 1

\* in a leg under way, the calls are made at the times 1 .. MaxPlayCalls
MaxPlayCalls == 8

\* throws that arrive, and ticks of the timer, while calls await the database
MaxThrowCalls == 3

\* Date.now() counts from the epoch: far above the row ids of the database
Epoch == 1000
\* loadMatch: settings.legsToWin || 3
DefaultLegsToWin == 3

----------------------------------------------------------------------------
(* Segments: a segment label is the sequence of its characters, so that    *)
(* String.startsWith is computed on the label itself.                      *)

S1    == <<"S", "1">>
S20   == <<"S", "2", "0">>
D20   == <<"D", "2", "0">>
T20   == <<"T", "2", "0">>
BULL  == <<"B", "U", "L", "L">>
DBULL == <<"D", "B", "U", "L", "L">>
MISS  == <<"M", "I", "S", "S">>

startsWith(segment, c) == Len(segment) >= 1 /\ segment[1] = c

isDouble(segment) == startsWith(segment, "D") \/ segment = DBULL

isTriple(segment) == startsWith(segment, "T")

isMaster(segment) == isDouble(segment) \/ isTriple(segment)

----------------------------------------------------------------------------
(* validator.validateX01Throw.  newScore is present in the result only     *)
(* where the code sets it (hasNewScore).                                   *)

DoubleInOpeningScore == 501

DoubleInApplies(currentScore, segment, options) ==
    options.doubleIn /\ currentScore = DoubleInOpeningScore /\ ~isDouble(segment)

\* FinishRuleBust without the double-out test
FinishRuleBust_MasterOnly(segment, options) ==
    options.masterOut /\ ~isMaster(segment)

\* the out-rule tests of a throw that leaves 0, in the order of the code
FinishRuleBust(segment, options) ==
    IF options.doubleOut /\ ~isDouble(segment) THEN TRUE
    ELSE options.masterOut /\ ~isMaster(segment)

validateX01Throw(currentScore, segment, throwScore, dartsThrown, options) ==
    IF throwScore < 0
    THEN [valid |-> FALSE, bust |-> FALSE, gameShot |-> FALSE,
          hasNewScore |-> FALSE, newScore |-> 0]
    ELSE IF DoubleInApplies(currentScore, segment, options)
    THEN [valid |-> TRUE, bust |-> FALSE, gameShot |-> FALSE,
          hasNewScore |-> TRUE, newScore |-> currentScore]
    ELSE LET newScore == currentScore - throwScore IN
         IF newScore < 0
         THEN [valid |-> TRUE, bust |-> TRUE, gameShot |-> FALSE,
               hasNewScore |-> FALSE, newScore |-> 0]
         ELSE IF newScore = 1 /\ options.doubleOut
         THEN [valid |-> TRUE, bust |-> TRUE, gameShot |-> FALSE,
               hasNewScore |-> FALSE, newScore |-> 0]
         ELSE IF newScore = 0
         THEN IF FinishRuleBust(segment, options)
              THEN [valid |-> TRUE, bust |-> TRUE, gameShot |-> FALSE,
                    hasNewScore |-> FALSE, newScore |-> 0]
              ELSE [valid |-> TRUE, bust |-> FALSE, gameShot |-> TRUE,
                    hasNewScore |-> TRUE, newScore |-> 0]
         ELSE [valid |-> TRUE, bust |-> FALSE, gameShot |-> FALSE,
               hasNewScore |-> TRUE, newScore |-> newScore]

----------------------------------------------------------------------------
(* validator.getCheckoutSuggestion.  A template literal such as            *)
(* `D${score / 2}` is the letter followed by the decimal digits of the     *)
(* number.  The result is null or the array of labels (path).              *)

DigitChars == <<"0", "1", "2", "3", "4", "5", "6", "7", "8", "9">>

RECURSIVE NumberToString(_)
NumberToString(n) ==
    IF n < 10 THEN <<DigitChars[n + 1]>>
    ELSE NumberToString(n \div 10) \o <<DigitChars[(n % 10) + 1]>>

Label(letter, n) == <<letter>> \o NumberToString(n)

Null == [isNull |-> TRUE]

Path(labels) == [isNull |-> FALSE, path |-> labels]

\* no bogey score
BogeyScores_None == {}

BogeyScores == {169, 168, 166, 165, 163, 162, 159}

\* a rest that one double takes out
IsDoubleRest(rest) == rest > 0 /\ rest <= 40 /\ rest % 2 = 0

\* the two-dart checkouts, in the order the code tries them
TwoDartCheckout(score) ==
    IF score = 50 THEN Path(<<BULL>>)
    ELSE IF IsDoubleRest(score - 50)
    THEN Path(<<BULL, Label("D", (score - 50) \div 2)>>)
    ELSE IF \E i \in 1..20 : IsDoubleRest(score - (i * 3))
    THEN LET i == CHOOSE i \in 1..20 :
                      /\ IsDoubleRest(score - (i * 3))
                      /\ \A h \in 1..(i - 1) : ~IsDoubleRest(score - (h * 3))
         IN Path(<<Label("T", i), Label("D", (score - (i * 3)) \div 2)>>)
    ELSE IF \E i \in 1..20 : IsDoubleRest(score - i)
    THEN LET i == CHOOSE i \in 1..20 :
                      /\ IsDoubleRest(score - i)
                      /\ \A h \in 1..(i - 1) : ~IsDoubleRest(score - h)
         IN Path(<<Label("S", i), Label("D", (score - i) \div 2)>>)
    ELSE Null

\* the three-dart checkouts listed one by one
SpecialCheckouts ==
    [score \in {170, 167, 164, 161, 160, 158, 157, 156, 155, 154, 153, 152, 151, 150} |->
        CASE score = 170 -> <<T20, T20, BULL>>
          [] score = 167 -> <<T20, Label("T", 19), BULL>>
          [] score = 164 -> <<T20, Label("T", 18), BULL>>
          [] score = 161 -> <<T20, Label("T", 17), BULL>>
          [] score = 160 -> <<T20, T20, D20>>
          [] score = 158 -> <<T20, T20, Label("D", 19)>>
          [] score = 157 -> <<T20, Label("T", 19), D20>>
          [] score = 156 -> <<T20, T20, Label("D", 18)>>
          [] score = 155 -> <<T20, Label("T", 19), Label("D", 19)>>
          [] score = 154 -> <<T20, Label("T", 18), D20>>
          [] score = 153 -> <<T20, Label("T", 19), Label("D", 18)>>
          [] score = 152 -> <<T20, T20, Label("D", 16)>>
          [] score = 151 -> <<T20, Label("T", 17), D20>>
          [] score = 150 -> <<T20, Label("T", 18), Label("D", 18)>>]

\* the pair (i, j) of trebles the two nested loops accept
TrebleTreble(score, i, j) ==
    /\ score - (i * 3) > 60 /\ score - (i * 3) <= 110
    /\ IsDoubleRest(score - (i * 3) - (j * 3))

\* the three-dart checkouts: the listed ones, then the loops from 20 down
ThreeDartCheckout(score) ==
    IF score \in DOMAIN SpecialCheckouts THEN Path(SpecialCheckouts[score])
    ELSE IF \E i, j \in 1..20 : TrebleTreble(score, i, j)
    THEN LET i == CHOOSE i \in 1..20 :
                      /\ \E j \in 1..20 : TrebleTreble(score, i, j)
                      /\ \A h \in (i + 1)..20 :
                             \A j \in 1..20 : ~TrebleTreble(score, h, j)
             j == CHOOSE j \in 1..20 :
                      /\ TrebleTreble(score, i, j)
                      /\ \A h \in (j + 1)..20 : ~TrebleTreble(score, i, h)
         IN Path(<<Label("T", i), Label("T", j),
                   Label("D", (score - (i * 3) - (j * 3)) \div 2)>>)
    ELSE Null

RECURSIVE getCheckoutSuggestion(_, _)
getCheckoutSuggestion(score, dartsLeft) ==
    IF score > 170 \/ score <= 0 \/ score \in BogeyScores THEN Null
    ELSE IF (score > 40 /\ dartsLeft < 2) \/ (score > 110 /\ dartsLeft < 3) THEN Null
    ELSE IF score <= 40 /\ score % 2 = 0 THEN Path(<<Label("D", score \div 2)>>)
    ELSE LET two == IF dartsLeft >= 2 THEN TwoDartCheckout(score) ELSE Null
             three == IF dartsLeft >= 3 THEN ThreeDartCheckout(score) ELSE Null
             rest == getCheckoutSuggestion(score - 1, dartsLeft - 1)
         IN IF ~two.isNull THEN two
            ELSE IF ~three.isNull THEN three
            ELSE IF score % 2 = 1
            THEN Path(<<S1>> \o (IF rest.isNull THEN <<>> ELSE rest.path))
            ELSE Null

----------------------------------------------------------------------------
(* statsTracker.  The quotients it stores (averageThrow,                  *)
(* checkoutPercentage, dartsPerLeg) are kept as fractions in lowest terms. *)

RECURSIVE GCD(_, _)
GCD(a, b) == IF b = 0 THEN a ELSE GCD(b, a % b)

\* the number n / d, for n >= 0 and d > 0
Quotient(n, d) == [num |-> n \div GCD(n, d), den |-> d \div GCD(n, d)]

ZeroQuotient == [num |-> 0, den |-> 1]

RECURSIVE SumNumbers(_)
SumNumbers(numbers) ==
    IF numbers = <<>> THEN 0 ELSE Head(numbers) + SumNumbers(Tail(numbers))

initPlayerStats ==
    [dartsThrown |-> 0, pointsScored |-> 0, legsWon |-> 0, legDarts |-> <<>>,
     busts |-> 0, checkoutAttempts |-> 0, checkoutSuccesses |-> 0,
     highestCheckout |-> 0, tonPlus |-> 0, tonFortyPlus |-> 0,
     tonEightyPlus |-> 0, averageThrow |-> ZeroQuotient,
     checkoutPercentage |-> ZeroQuotient, dartsPerLeg |-> ZeroQuotient,
     bestLegDarts |-> 0]

\* updatePlayerThrow that adds the points of a bust as well
updatePlayerThrow_CountsBust(stats, throwScore, isBust, isCheckoutAttempt, isSuccessfulCheckout, checkoutValue) ==
    LET dartsThrown == stats.dartsThrown + 1
        pointsScored == stats.pointsScored + throwScore
        attempts == stats.checkoutAttempts + (IF isCheckoutAttempt THEN 1 ELSE 0)
        successes == stats.checkoutSuccesses + (IF isSuccessfulCheckout THEN 1 ELSE 0)
    IN [stats EXCEPT
          !.dartsThrown = dartsThrown,
          !.pointsScored = pointsScored,
          !.busts = IF isBust THEN @ + 1 ELSE @,
          !.checkoutAttempts = attempts,
          !.checkoutSuccesses = successes,
          !.highestCheckout = IF isSuccessfulCheckout /\ checkoutValue > @
                              THEN checkoutValue ELSE @,
          !.averageThrow = Quotient(pointsScored * 3, dartsThrown),
          !.checkoutPercentage = IF attempts > 0
                                 THEN Quotient(successes * 100, attempts)
                                 ELSE ZeroQuotient]

updatePlayerThrow(stats, throwScore, isBust, isCheckoutAttempt, isSuccessfulCheckout, checkoutValue) ==
    LET dartsThrown == stats.dartsThrown + 1
        pointsScored == IF isBust THEN stats.pointsScored
                        ELSE stats.pointsScored + throwScore
        attempts == stats.checkoutAttempts + (IF isCheckoutAttempt THEN 1 ELSE 0)
        successes == stats.checkoutSuccesses + (IF isSuccessfulCheckout THEN 1 ELSE 0)
    IN [stats EXCEPT
          !.dartsThrown = dartsThrown,
          !.pointsScored = pointsScored,
          !.busts = IF isBust THEN @ + 1 ELSE @,
          !.checkoutAttempts = attempts,
          !.checkoutSuccesses = successes,
          !.highestCheckout = IF isSuccessfulCheckout /\ checkoutValue > @
                              THEN checkoutValue ELSE @,
          !.averageThrow = IF dartsThrown > 0
                           THEN Quotient(pointsScored * 3, dartsThrown)
                           ELSE ZeroQuotient,
          !.checkoutPercentage = IF attempts > 0
                                 THEN Quotient(successes * 100, attempts)
                                 ELSE ZeroQuotient]

initMatchStats(playerIds, legsToWin) ==
    [players |-> [id \in playerIds |-> initPlayerStats],
     legsPlayed |-> 0, currentLeg |-> 1, legsToWin |-> legsToWin,
     ended |-> FALSE]

updatePlayerTurn(stats, turnScore) ==
    IF turnScore >= 100 /\ turnScore < 140
    THEN [stats EXCEPT !.tonPlus = @ + 1]
    ELSE IF turnScore >= 140 /\ turnScore < 180
    THEN [stats EXCEPT !.tonFortyPlus = @ + 1]
    ELSE IF turnScore = 180
    THEN [stats EXCEPT !.tonEightyPlus = @ + 1]
    ELSE stats

updateLegWin(stats, dartsUsedInLeg) ==
    LET legsWon == stats.legsWon + 1
        legDarts == Append(stats.legDarts, dartsUsedInLeg)
    IN [stats EXCEPT
          !.legsWon = legsWon,
          !.legDarts = legDarts,
          !.bestLegDarts = IF @ = 0 \/ dartsUsedInLeg < @
                           THEN dartsUsedInLeg ELSE @,
          !.dartsPerLeg = IF legsWon > 0
                          THEN Quotient(SumNumbers(legDarts), legsWon)
                          ELSE ZeroQuotient]

----------------------------------------------------------------------------
(* Small helpers for JavaScript arrays *)

RECURSIVE SumScores(_)
SumScores(throws) ==
    IF throws = <<>> THEN 0 ELSE Head(throws).score + SumScores(Tail(throws))

\* Array.prototype.findIndex over the players: 0-based index, or -1
findPlayerIndex(players, playerId) ==
    IF \E i \in 1..Len(players) : players[i].id = playerId
    THEN (CHOOSE i \in 1..Len(players) :
              /\ players[i].id = playerId
              /\ \A j \in 1..(i - 1) : players[j].id # playerId) - 1
    ELSE -1

\* a[index] = value on an array of length >= index
ArraySet(a, index, value) ==
    IF index < Len(a) THEN [a EXCEPT ![index + 1] = value] ELSE Append(a, value)

----------------------------------------------------------------------------
(* MatchManager: construction of a match *)

NoMatch == [state |-> "none"]

HasMatch == match # NoMatch

SupportedStartingScores == {301, 501, 701, 901}

DefaultStartingScore == 501

\* ResolveStartingScore without the test against the supported values
ResolveStartingScore_AnyValue(mode, settings) ==
    IF mode = "x01" /\ settings.startingScore # 0 THEN settings.startingScore
    ELSE DefaultStartingScore

\* settings.startingScore is absent (0) or a number; mode 'x01' is the default
ResolveStartingScore(mode, settings) ==
    IF mode = "x01"
    THEN LET x01Value == IF settings.startingScore = 0 THEN DefaultStartingScore
                         ELSE settings.startingScore
         IN IF x01Value \in SupportedStartingScores THEN x01Value
            ELSE DefaultStartingScore
    ELSE DefaultStartingScore

\* the boolean settings arrive as "undefined", "true" or "false"
ResolveDoubleOut(settings) ==
    IF settings.doubleOut = "undefined" THEN TRUE ELSE settings.doubleOut = "true"

ValidatorOptions(mode, settings) ==
    [doubleIn |-> settings.doubleIn = "true",
     doubleOut |-> ResolveDoubleOut(settings),
     masterOut |-> settings.masterOut = "true",
     startingScore |-> ResolveStartingScore(mode, settings),
     checkoutSuggestions |-> settings.checkoutSuggestions # "false"]

\* initializePlayers reads this.settings.startingScore, a property the class
\* never sets.  Where it is unset the read throws a TypeError (CreateMatch);
\* where it is set, it is read as the starting score createMatch has
\* resolved for the match being created.
initializePlayers(playerIds, startingScore) ==
    [index \in 1..Len(playerIds) |->
        [id |-> playerIds[index],
         position |-> index,
         score |-> startingScore,
         isActive |-> (index = 1),
         isWinner |-> FALSE,
         history |-> <<>>,
         currentTurn |-> <<>>,
         originalScore |-> startingScore,
         dartsThrown |-> 0,
         legsWon |-> 0]]

NewMatch(playerIds, mode, legsToWin, settings) ==
    LET options == ValidatorOptions(mode, settings)
        setupPlayers == initializePlayers(playerIds, options.startingScore)
    IN [players |-> setupPlayers,
        legsToWin |-> legsToWin,
        currentLeg |-> 1,
        activePlayerIndex |-> 0,
        mode |-> mode,
        state |-> "pending",
        settings |-> options,
        stats |-> initMatchStats({playerIds[i] : i \in 1..Len(playerIds)}, legsToWin),
        legStarters |-> <<setupPlayers[1].id>>,
        round |-> 1]

\* constructor(db = null): the instance built without a database
NoDb == [open |-> FALSE]

NoPersistence ==
    /\ db = NoDb
    /\ calls = <<>>
    /\ emitted = <<>>

----------------------------------------------------------------------------
(* What a call reports to its caller *)

NoValidation ==
    [valid |-> FALSE, bust |-> FALSE, gameShot |-> FALSE,
     hasNewScore |-> FALSE, newScore |-> 0]

NoThrow == [id |-> 0]

\* the further arguments of a call that has none
NoArgs == <<>>

\* op, playerId, args: the call (playerId 0 where the call names no player;
\* args: the settings of createMatch, the throwId, segment and score of
\* correctThrow); ok: it returned (TRUE) or threw (FALSE); the rest is what
\* it returned
Returned(op, playerId) ==
    [op |-> op, playerId |-> playerId, args |-> NoArgs,
     ok |-> TRUE, error |-> "none",
     throwData |-> NoThrow, validation |-> NoValidation,
     bust |-> FALSE, gameShot |-> FALSE, legWon |-> FALSE, matchWon |-> FALSE]

Threw(op, playerId, error) ==
    [Returned(op, playerId) EXCEPT !.ok = FALSE, !.error = error]

Fails(op, playerId, error) ==
    /\ result' = Threw(op, playerId, error)
    /\ UNCHANGED <<match, autosaveTimer, clock, probe, persistence>>

----------------------------------------------------------------------------
(* MatchManager: the private steps *)

ActiveIdx(m) == m.activePlayerIndex + 1

\* CommitTurn without `currentPlayer.isActive = false`
CommitTurn_KeepsActive(currentPlayer) ==
    [currentPlayer EXCEPT
        !.history = @ \o currentPlayer.currentTurn,
        !.currentTurn = <<>>,
        !.originalScore = currentPlayer.score]

\* the outgoing player of moveToNextPlayer
CommitTurn(currentPlayer) ==
    [currentPlayer EXCEPT
        !.history = @ \o currentPlayer.currentTurn,
        !.currentTurn = <<>>,
        !.originalScore = currentPlayer.score,
        !.isActive = FALSE]

moveToNextPlayer(m) ==
    LET cur == ActiveIdx(m)
        currentPlayer == m.players[cur]
        turnScore == SumScores(currentPlayer.currentTurn)
        stats1 == IF currentPlayer.id \in DOMAIN m.stats.players
                  THEN [m.stats EXCEPT !.players[currentPlayer.id] =
                                           updatePlayerTurn(@, turnScore)]
                  ELSE m.stats
        committed == CommitTurn(currentPlayer)
        nextIndex == (m.activePlayerIndex + 1) % Len(m.players)
        players1 == [m.players EXCEPT ![cur] = committed]
        players2 == [players1 EXCEPT ![nextIndex + 1].isActive = TRUE]
    IN [m EXCEPT !.stats = stats1,
                 !.players = players2,
                 !.activePlayerIndex = nextIndex,
                 !.round = IF nextIndex = 0 THEN @ + 1 ELSE @]

\* NextStarterIndex without the advance by one position
NextStarterIndex_SameStarter(m, newLeg) ==
    findPlayerIndex(m.players, m.legStarters[newLeg - 1])

NextStarterIndex(m, newLeg) ==
    LET lastStarterIndex == findPlayerIndex(m.players, m.legStarters[newLeg - 1])
    IN (lastStarterIndex + 1) % Len(m.players)

\* setupNextLeg without `player.isWinner = false`
setupNextLeg_KeepsWinner(m) ==
    LET newLeg == m.currentLeg + 1
        nextStarterIndex == NextStarterIndex(m, newLeg)
        nextStarterId == m.players[nextStarterIndex + 1].id
    IN [m EXCEPT
          !.currentLeg = newLeg,
          !.stats.currentLeg = newLeg,
          !.stats.legsPlayed = @ + 1,
          !.legStarters = ArraySet(@, newLeg - 1, nextStarterId),
          !.players = [i \in 1..Len(m.players) |->
                          [m.players[i] EXCEPT
                              !.score = m.settings.startingScore,
                              !.originalScore = m.settings.startingScore,
                              !.isActive = (m.players[i].id = nextStarterId),
                              !.currentTurn = <<>>,
                              !.dartsThrown = 0]],
          !.activePlayerIndex = nextStarterIndex,
          !.round = 1]

setupNextLeg(m) ==
    LET newLeg == m.currentLeg + 1
        nextStarterIndex == NextStarterIndex(m, newLeg)
        nextStarterId == m.players[nextStarterIndex + 1].id
    IN [m EXCEPT
          !.currentLeg = newLeg,
          !.stats.currentLeg = newLeg,
          !.stats.legsPlayed = @ + 1,
          !.legStarters = ArraySet(@, newLeg - 1, nextStarterId),
          !.players = [i \in 1..Len(m.players) |->
                          [m.players[i] EXCEPT
                              !.score = m.settings.startingScore,
                              !.originalScore = m.settings.startingScore,
                              !.isActive = (m.players[i].id = nextStarterId),
                              !.isWinner = FALSE,
                              !.currentTurn = <<>>,
                              !.dartsThrown = 0]],
          !.activePlayerIndex = nextStarterIndex,
          !.round = 1]

getPlayerLegWins(m, playerId) ==
    IF playerId \in DOMAIN m.stats.players THEN m.stats.players[playerId].legsWon
    ELSE 0

----------------------------------------------------------------------------
(* MatchManager.processThrow *)

\* ProcessThrowError without the test of whose turn it is
ProcessThrowError_NoTurnCheck(m, playerId) ==
    IF m = NoMatch THEN "NotFound"
    ELSE IF m.state # "active" THEN "InvalidTransition"
    ELSE LET playerIndex == findPlayerIndex(m.players, playerId) IN
         IF playerIndex = -1 THEN "NotFound"
         ELSE IF Len(m.players[playerIndex + 1].currentTurn) >= 3 THEN "TurnComplete"
         ELSE "none"

\* the guards of processThrow, in the order the code tests them
ProcessThrowError(m, playerId) ==
    IF m = NoMatch THEN "NotFound"
    ELSE IF m.state # "active" THEN "InvalidTransition"
    ELSE LET playerIndex == findPlayerIndex(m.players, playerId) IN
         IF playerIndex = -1 THEN "NotFound"
         ELSE IF playerIndex # m.activePlayerIndex THEN "NotYourTurn"
         ELSE IF Len(m.players[playerIndex + 1].currentTurn) >= 3 THEN "TurnComplete"
         ELSE "none"

\* AfterGameShot with `playerLegWins > this.match.legsToWin`
AfterGameShot_OneLegLate(m, idx) ==
    LET playerId == m.players[idx].id
        m1 == IF playerId \in DOMAIN m.stats.players
              THEN [m EXCEPT !.stats.players[playerId] =
                                 updateLegWin(@, m.players[idx].dartsThrown)]
              ELSE m
        m2 == [m1 EXCEPT !.players[idx].isWinner = TRUE]
    IN IF getPlayerLegWins(m2, playerId) > m2.legsToWin
       THEN [m2 EXCEPT !.state = "completed"]
       ELSE setupNextLeg(m2)

\* the game-shot branch: leg win recorded, then match won or next leg
AfterGameShot(m, idx) ==
    LET playerId == m.players[idx].id
        m1 == IF playerId \in DOMAIN m.stats.players
              THEN [m EXCEPT !.stats.players[playerId] =
                                 updateLegWin(@, m.players[idx].dartsThrown)]
              ELSE m
        m2 == [m1 EXCEPT !.players[idx].isWinner = TRUE]
    IN IF getPlayerLegWins(m2, playerId) >= m2.legsToWin
       THEN [m2 EXCEPT !.state = "completed"]
       ELSE setupNextLeg(m2)

\* AfterBust without `player.score = player.originalScore`
AfterBust_KeepsScore(m, idx) ==
    LET playerId == m.players[idx].id
    IN IF playerId \in DOMAIN m.stats.players
       THEN [m EXCEPT !.stats.players[playerId].busts = @ + 1]
       ELSE m

\* the bust branch
AfterBust(m, idx) ==
    LET playerId == m.players[idx].id
        m1 == [m EXCEPT !.players[idx].score = m.players[idx].originalScore]
    IN IF playerId \in DOMAIN m1.stats.players
       THEN [m1 EXCEPT !.stats.players[playerId].busts = @ + 1]
       ELSE m1

\* the body of processThrow once the guards have passed: the match it leaves
\* and the result it returns
ProcessThrowBody(m, playerId, segment, score, throwId) ==
    LET idx == findPlayerIndex(m.players, playerId) + 1
        player == m.players[idx]
        dartsInTurn == Len(player.currentTurn)
        validationResult ==
            validateX01Throw(player.score, segment, score, dartsInTurn, m.settings)
        throwData == [id |-> throwId, playerId |-> playerId, round |-> m.round,
                      throwIndex |-> dartsInTurn + 1, segment |-> segment,
                      score |-> score]
        m1 == [m EXCEPT !.players[idx].currentTurn = Append(@, throwData),
                        !.players[idx].dartsThrown = @ + 1]
        scored == validationResult.valid /\ ~validationResult.bust
        m2 == IF scored /\ validationResult.hasNewScore
              THEN [m1 EXCEPT !.players[idx].score = validationResult.newScore]
              ELSE m1
        gameShot == scored /\ validationResult.gameShot
        bust == ~scored /\ validationResult.bust
        m3 == IF gameShot THEN AfterGameShot(m2, idx)
              ELSE IF bust THEN AfterBust(m2, idx)
              ELSE m2
        legWon == gameShot
        matchWon == gameShot /\ m3.state = "completed"
        m4 == IF (dartsInTurn = 2 \/ legWon) /\ ~legWon
              THEN moveToNextPlayer(m3) ELSE m3
    IN [match |-> m4,
        result |-> [Returned("processThrow", playerId) EXCEPT
                       !.throwData = throwData,
                       !.validation = validationResult, !.bust = bust,
                       !.gameShot = gameShot, !.legWon = legWon,
                       !.matchWon = matchWon]]

----------------------------------------------------------------------------
(* Inputs of the calls *)

PlayerId(position) == 10 + position

PlayerList(n) == [position \in 1..n |-> PlayerId(position)]

\* the ids of the players a match can hold, and one id no match holds
PlayerIdInputs == {PlayerId(position) : position \in 1..MaxPlayers} \cup {99}

Settings(startingScore, doubleIn, doubleOut, masterOut) ==
    [startingScore |-> startingScore, doubleIn |-> doubleIn,
     doubleOut |-> doubleOut, masterOut |-> masterOut,
     checkoutSuggestions |-> "undefined"]

\* the settings objects createMatch is called with (startingScore 0: absent)
SettingsInputs ==
    {Settings(0, "undefined", "undefined", "undefined"),
     Settings(301, "true", "false", "undefined"),
     Settings(170, "true", "undefined", "true")}

Dart(segment, score) == [segment |-> segment, score |-> score]

\* the (segment, score) pairs processThrow is called with in a match whose
\* starting score is s; processThrow takes the score as given by its caller
ThrowInputs(s) ==
    {Dart(D20, s), Dart(D20, s - 60), Dart(T20, 60), Dart(D20, 40), Dart(S1, -1)}

\* the (segment, score) pairs correctThrow is called with
CorrectionInputs == {Dart(T20, 60), Dart(MISS, 0)}

\* the throw ids correctThrow is called with: those of the throws the match
\* holds, committed or not, and one it does not hold
ThrowIdInputs(m) ==
    UNION {{(m.players[i].history \o m.players[i].currentTurn)[k].id :
               k \in 1..(Len(m.players[i].history) + Len(m.players[i].currentTurn))} :
           i \in 1..Len(m.players)}
        \cup {MaxClock + 1}

Correction(throwId, dart) ==
    [throwId |-> throwId, segment |-> dart.segment, score |-> dart.score]

----------------------------------------------------------------------------
(* The validator on its own: validateX01Throw called with the options of a *)
(* match created with the given settings                                   *)

NoProbe == [called |-> FALSE]

ProbeSettings ==
    {[startingScore |-> s, doubleIn |-> din, doubleOut |-> dout, masterOut |-> mout,
      checkoutSuggestions |-> "undefined"] :
        s \in {0} \cup SupportedStartingScores,
        din \in {"undefined", "true"},
        dout \in {"undefined", "true", "false"},
        mout \in {"undefined", "true"}}

ProbeSegments == {S1, S20, D20, T20, BULL, DBULL, MISS}

\* the scores of a player: the low ones and the starting score of the match
ProbeScores(settings) ==
    (1..MaxProbeScore) \cup {ResolveStartingScore("x01", settings)}

\* the scores of a dart: from -1, and those that leave a fresh player 0 or 1
ProbeThrowScores(settings) ==
    (-1..MaxProbeScore)
        \cup {ResolveStartingScore("x01", settings),
              ResolveStartingScore("x01", settings) - 1}

ProbeInputs ==
    UNION {{[called |-> FALSE, settings |-> st, currentScore |-> cs,
             segment |-> seg, throwScore |-> ts, out |-> NoValidation] :
                cs \in ProbeScores(st), seg \in ProbeSegments,
                ts \in ProbeThrowScores(st)} :
           st \in ProbeSettings}

----------------------------------------------------------------------------
(* The calls *)

Init ==
    /\ match = NoMatch
    /\ autosaveTimer = FALSE
    /\ NoPersistence
    /\ clock = 1
    /\ result = Returned("constructor", 0)
    /\ probe = NoProbe

\* with no player, setupPlayers[0].id throws a TypeError; with players,
\* initializePlayers throws one where this.settings is unset
CreateMatch ==
    IF HasMatch THEN Fails("createMatch", 0, "AlreadyInProgress")
    ELSE \E n \in {0, 1, MaxPlayers} :
        IF n = 0 THEN Fails("createMatch", 0, "TypeError")
        ELSE \/ Fails("createMatch", 0, "TypeError")
             \/ \E legsToWin \in {1, MaxLegsToWin}, settings \in SettingsInputs :
                    /\ match' = NewMatch(PlayerList(n), "x01", legsToWin, settings)
                    /\ autosaveTimer' = TRUE
                    /\ result' = [Returned("createMatch", 0) EXCEPT
                                      !.args = settings]
                    /\ clock <= MaxClock /\ clock' = clock + 1
                    /\ UNCHANGED <<probe, persistence>>

\* a guarded phase transition: from one of the states `from` to the state `to`
Transition(op, from, to) ==
    IF ~HasMatch THEN Fails(op, 0, "NotFound")
    ELSE IF match.state \notin from THEN Fails(op, 0, "InvalidTransition")
    ELSE /\ match' = [match EXCEPT !.state = to]
         /\ result' = Returned(op, 0)
         /\ clock <= MaxClock /\ clock' = clock + 1
         /\ UNCHANGED <<autosaveTimer, probe, persistence>>

StartMatch == Transition("startMatch", {"pending"}, "warmup")

\* StartWarmup accepted from the state bullshot as well
StartWarmup_FromBullshot ==
    Transition("startWarmup", {"pending", "warmup", "bullshot"}, "warmup")

StartWarmup == Transition("startWarmup", {"pending", "warmup"}, "warmup")

EndWarmup == Transition("endWarmup", {"warmup"}, "bullshot")

RecordBullShot ==
    \E playerId \in PlayerIdInputs :
        IF ~HasMatch THEN Fails("recordBullShot", playerId, "NotFound")
        ELSE IF match.state # "bullshot"
        THEN Fails("recordBullShot", playerId, "InvalidTransition")
        ELSE /\ result' = Returned("recordBullShot", playerId)
             /\ clock <= MaxClock /\ clock' = clock + 1
             /\ UNCHANGED <<match, autosaveTimer, probe, persistence>>

\* SetBullWinnerBody without `legStarters[0] = playerId`
SetBullWinnerBody_KeepsStarter(m, playerId) ==
    [m EXCEPT
        !.players = [i \in 1..Len(m.players) |->
                        [m.players[i] EXCEPT !.isActive = (m.players[i].id = playerId)]],
        !.activePlayerIndex = findPlayerIndex(m.players, playerId),
        !.state = "active"]

SetBullWinnerBody(m, playerId) ==
    [m EXCEPT
        !.legStarters = ArraySet(@, 0, playerId),
        !.players = [i \in 1..Len(m.players) |->
                        [m.players[i] EXCEPT !.isActive = (m.players[i].id = playerId)]],
        !.activePlayerIndex = findPlayerIndex(m.players, playerId),
        !.state = "active"]

SetBullWinner ==
    \E playerId \in PlayerIdInputs :
        IF ~HasMatch THEN Fails("setBullWinner", playerId, "NotFound")
        ELSE IF match.state # "bullshot"
        THEN Fails("setBullWinner", playerId, "InvalidTransition")
        ELSE IF findPlayerIndex(match.players, playerId) = -1
        THEN Fails("setBullWinner", playerId, "NotFound")
        ELSE /\ match' = SetBullWinnerBody(match, playerId)
             /\ result' = Returned("setBullWinner", playerId)
             /\ clock <= MaxClock /\ clock' = clock + 1
             /\ UNCHANGED <<autosaveTimer, probe, persistence>>

ProcessThrow ==
    \E playerId \in PlayerIdInputs :
        LET error == ProcessThrowError(match, playerId) IN
        IF error # "none" THEN Fails("processThrow", playerId, error)
        ELSE /\ clock <= MaxClock
             /\ \E dart \in ThrowInputs(match.settings.startingScore) :
                    LET out == ProcessThrowBody(match, playerId, dart.segment,
                                                dart.score, clock)
                    IN /\ match' = out.match
                       /\ result' = out.result
             /\ clock' = clock + 1
             /\ UNCHANGED <<autosaveTimer, probe, persistence>>

ManualPlayerSwitch ==
    /\ clock <= MaxClock
    /\ match' = IF HasMatch THEN moveToNextPlayer(match) ELSE match
    /\ result' = Returned("manualPlayerSwitch", 0)
    /\ clock' = clock + 1
    /\ UNCHANGED <<autosaveTimer, probe, persistence>>

EndMatchBody(m, winningPlayerId) ==
    LET playerIndex == findPlayerIndex(m.players, winningPlayerId)
        m1 == IF winningPlayerId # 0 /\ playerIndex # -1
              THEN [m EXCEPT !.players[playerIndex + 1].isWinner = TRUE]
              ELSE m
    IN [m1 EXCEPT !.state = "completed", !.stats.ended = TRUE]

\* winningPlayerId 0: the optional argument is absent
EndMatch ==
    \E winningPlayerId \in {0, PlayerId(1), 99} :
        IF ~HasMatch THEN Fails("endMatch", winningPlayerId, "NotFound")
        ELSE /\ match' = EndMatchBody(match, winningPlayerId)
             /\ autosaveTimer' = FALSE
             /\ result' = Returned("endMatch", winningPlayerId)
             /\ clock <= MaxClock /\ clock' = clock + 1
             /\ UNCHANGED <<probe, persistence>>

\* the first throw with the given id in the players' histories, as
\* <<player index, history index>> (both 1-based), or <<0, 0>>
FindThrow(m, throwId) ==
    LET holders == {i \in 1..Len(m.players) :
                       \E k \in 1..Len(m.players[i].history) :
                           m.players[i].history[k].id = throwId}
    IN IF holders = {} THEN <<0, 0>>
       ELSE LET i == CHOOSE i \in holders : \A j \in holders : i <= j
                hist == m.players[i].history
                k == CHOOSE k \in 1..Len(hist) :
                         /\ hist[k].id = throwId
                         /\ \A l \in 1..(k - 1) : hist[l].id # throwId
            IN <<i, k>>

\* CorrectThrowBody with the difference added to the player's score
CorrectThrowBody_AddsDifference(m, at, segment, score) ==
    LET i == at[1]
        k == at[2]
        throwData == m.players[i].history[k]
        scoreDifference == score - throwData.score
        m1 == [m EXCEPT !.players[i].history[k].segment = segment,
                        !.players[i].history[k].score = score,
                        !.players[i].score = @ + scoreDifference]
        validationResult ==
            validateX01Throw(m1.players[i].score + scoreDifference, segment, score,
                             throwData.throwIndex - 1, m.settings)
    IN [match |-> m1,
        result |-> [Returned("correctThrow", 0) EXCEPT
                       !.throwData = m1.players[i].history[k],
                       !.validation = validationResult]]

CorrectThrowBody(m, at, segment, score) ==
    LET i == at[1]
        k == at[2]
        throwData == m.players[i].history[k]
        scoreDifference == score - throwData.score
        m1 == [m EXCEPT !.players[i].history[k].segment = segment,
                        !.players[i].history[k].score = score,
                        !.players[i].score = @ - scoreDifference]
        validationResult ==
            validateX01Throw(m1.players[i].score + scoreDifference, segment, score,
                             throwData.throwIndex - 1, m.settings)
    IN [match |-> m1,
        result |-> [Returned("correctThrow", 0) EXCEPT
                       !.throwData = m1.players[i].history[k],
                       !.validation = validationResult]]

CorrectThrow ==
    IF ~HasMatch THEN Fails("correctThrow", 0, "NotFound")
    ELSE \E throwId \in ThrowIdInputs(match) :
        LET at == FindThrow(match, throwId) IN
        IF at = <<0, 0>>
        THEN /\ result' = [Threw("correctThrow", 0, "NotFound") EXCEPT
                               !.args = Correction(throwId, Dart(MISS, 0))]
             /\ UNCHANGED <<match, autosaveTimer, clock, probe, persistence>>
        ELSE /\ clock <= MaxClock
             /\ \E dart \in CorrectionInputs :
                    LET out == CorrectThrowBody(match, at, dart.segment, dart.score)
                    IN /\ match' = out.match
                       /\ result' = [out.result EXCEPT
                                         !.args = Correction(throwId, dart)]
             /\ clock' = clock + 1
             /\ UNCHANGED <<autosaveTimer, probe, persistence>>

\* A call that throws changes nothing but `result`, so the calls that can
\* follow it are the calls that can follow the state it was made in: the
\* behaviours are followed up to the first call that throws.
CallerContinues == result.ok

Call ==
    \/ CreateMatch
    \/ StartMatch
    \/ StartWarmup
    \/ EndWarmup
    \/ RecordBullShot
    \/ SetBullWinner
    \/ ProcessThrow
    \/ ManualPlayerSwitch
    \/ CorrectThrow
    \/ EndMatch

Next == CallerContinues /\ Call

Spec == Init /\ [][Next]_vars

----------------------------------------------------------------------------
(* A leg under way: the calls made on the match once createMatch,          *)
(* startMatch, endWarmup and setBullWinner have returned, with the darts   *)
(* of a board (each segment with its own points).                          *)

S11 == <<"S", "1", "1">>

\* the darts thrown: treble 20, single 11, bullseye
PlayThrowInputs == {Dart(T20, 60), Dart(S11, 11), Dart(DBULL, 50)}

\* the correction made: the dart is taken back as a miss
PlayCorrectionInputs == {Dart(MISS, 0)}

\* the throws a player holds, committed or not
ThrowsOf(player) == player.history \o player.currentTurn

\* the ids of the throws the match holds
ThrowIdsHeld(m) ==
    UNION {{ThrowsOf(m.players[i])[k].id : k \in 1..Len(ThrowsOf(m.players[i]))} :
           i \in 1..Len(m.players)}

\* the throw correctThrow is called for: the first throw of the match
PlayThrowIdInputs(m) ==
    {id \in ThrowIdsHeld(m) : \A other \in ThrowIdsHeld(m) : id <= other}

\* the match when setBullWinner(playerId) has returned: MaxPlayers players,
\* 301 with double out, MaxLegsToWin legs to win
MatchInPlay(playerId) ==
    LET settings == Settings(301, "undefined", "undefined", "undefined")
        m == NewMatch(PlayerList(MaxPlayers), "x01", MaxLegsToWin, settings)
    IN SetBullWinnerBody([m EXCEPT !.state = "bullshot"], playerId)

InitPlay ==
    /\ \E playerId \in {PlayerId(position) : position \in 1..MaxPlayers} :
           /\ match = MatchInPlay(playerId)
           /\ result = Returned("setBullWinner", playerId)
    /\ autosaveTimer = TRUE
    /\ NoPersistence
    /\ clock = 1
    /\ probe = NoProbe

ProcessThrowInPlay ==
    LET playerId == match.players[ActiveIdx(match)].id
        error == ProcessThrowError(match, playerId)
    IN IF error # "none" THEN Fails("processThrow", playerId, error)
       ELSE /\ clock <= MaxPlayCalls
            /\ \E dart \in PlayThrowInputs :
                   LET out == ProcessThrowBody(match, playerId, dart.segment,
                                               dart.score, clock)
                   IN /\ match' = out.match
                      /\ result' = out.result
            /\ clock' = clock + 1
            /\ UNCHANGED <<autosaveTimer, probe, persistence>>

ManualPlayerSwitchInPlay ==
    /\ clock <= MaxPlayCalls
    /\ match' = moveToNextPlayer(match)
    /\ result' = Returned("manualPlayerSwitch", 0)
    /\ clock' = clock + 1
    /\ UNCHANGED <<autosaveTimer, probe, persistence>>

CorrectThrowInPlay ==
    \E throwId \in PlayThrowIdInputs(match) :
        LET at == FindThrow(match, throwId) IN
        IF at = <<0, 0>>
        THEN /\ result' = [Threw("correctThrow", 0, "NotFound") EXCEPT
                               !.args = Correction(throwId, Dart(MISS, 0))]
             /\ UNCHANGED <<match, autosaveTimer, clock, probe, persistence>>
        ELSE /\ clock <= MaxPlayCalls
             /\ \E dart \in PlayCorrectionInputs :
                    LET out == CorrectThrowBody(match, at, dart.segment, dart.score)
                    IN /\ match' = out.match
                       /\ result' = [out.result EXCEPT
                                         !.args = Correction(throwId, dart)]
             /\ clock' = clock + 1
             /\ UNCHANGED <<autosaveTimer, probe, persistence>>

NextPlay ==
    /\ CallerContinues
    /\ \/ ProcessThrowInPlay
       \/ ManualPlayerSwitchInPlay
       \/ CorrectThrowInPlay

SpecPlay == InitPlay /\ [][NextPlay]_vars

----------------------------------------------------------------------------
(* The validator called on its own, as processThrow calls it: with the     *)
(* settings object of the match as its options                             *)

InitValidator ==
    /\ match = NoMatch
    /\ autosaveTimer = FALSE
    /\ NoPersistence
    /\ clock = 1
    /\ result = Returned("constructor", 0)
    /\ probe \in ProbeInputs

ValidateX01Throw ==
    /\ ~probe.called
    /\ probe' = [probe EXCEPT
                    !.called = TRUE,
                    !.out = validateX01Throw(probe.currentScore, probe.segment,
                                             probe.throwScore, 0,
                                             ValidatorOptions("x01", probe.settings))]
    /\ UNCHANGED <<match, autosaveTimer, clock, result, persistence>>

NextValidator == ValidateX01Throw

SpecValidator == InitValidator /\ [][NextValidator]_vars

----------------------------------------------------------------------------
(* The statistics tracker on its own: a throw history replayed from an     *)
(* empty record, updatePlayerThrow per dart and updateLegWin per leg won   *)

RawThrow(score, isBust, isCheckoutAttempt, isSuccessfulCheckout) ==
    [score |-> score, isBust |-> isBust, isCheckoutAttempt |-> isCheckoutAttempt,
     isSuccessfulCheckout |-> isSuccessfulCheckout]

\* a scoring dart, a bust, a bust on a checkout, a checkout, a missed checkout
ReplayThrowInputs ==
    {RawThrow(60, FALSE, FALSE, FALSE), RawThrow(20, TRUE, FALSE, FALSE),
     RawThrow(40, TRUE, TRUE, FALSE), RawThrow(40, FALSE, TRUE, TRUE),
     RawThrow(1, FALSE, TRUE, FALSE)}

\* the darts used in a leg won
ReplayLegInputs == {3, 4}

InitStats ==
    /\ match = NoMatch
    /\ autosaveTimer = FALSE
    /\ NoPersistence
    /\ clock = 1
    /\ result = Returned("constructor", 0)
    /\ probe = [throws |-> <<>>, legs |-> <<>>, stats |-> initPlayerStats]

ReplayThrow ==
    /\ Len(probe.throws) < MaxReplayThrows
    /\ \E t \in ReplayThrowInputs :
           probe' = [probe EXCEPT
                        !.throws = Append(@, t),
                        !.stats = updatePlayerThrow(@, t.score, t.isBust,
                                      t.isCheckoutAttempt, t.isSuccessfulCheckout,
                                      IF t.isSuccessfulCheckout THEN t.score ELSE 0)]
    /\ UNCHANGED <<match, autosaveTimer, clock, result, persistence>>

ReplayLegWin ==
    /\ Len(probe.legs) < MaxReplayLegs
    /\ \E dartsUsedInLeg \in ReplayLegInputs :
           probe' = [probe EXCEPT
                        !.legs = Append(@, dartsUsedInLeg),
                        !.stats = updateLegWin(@, dartsUsedInLeg)]
    /\ UNCHANGED <<match, autosaveTimer, clock, result, persistence>>

NextStats == ReplayThrow \/ ReplayLegWin

SpecStats == InitStats /\ [][NextStats]_vars

----------------------------------------------------------------------------
(* getCheckoutSuggestion called on its own *)

CheckoutInputs ==
    {[called |-> FALSE, score |-> score, dartsLeft |-> dartsLeft, out |-> Null] :
        score \in (-2)..MaxCheckoutScore, dartsLeft \in 1..3}

InitCheckout ==
    /\ match = NoMatch
    /\ autosaveTimer = FALSE
    /\ NoPersistence
    /\ clock = 1
    /\ result = Returned("constructor", 0)
    /\ probe \in CheckoutInputs

GetCheckoutSuggestion ==
    /\ ~probe.called
    /\ probe' = [probe EXCEPT
                    !.called = TRUE,
                    !.out = getCheckoutSuggestion(probe.score, probe.dartsLeft)]
    /\ UNCHANGED <<match, autosaveTimer, clock, result, persistence>>

NextCheckout == GetCheckoutSuggestion

SpecCheckout == InitCheckout /\ [][NextCheckout]_vars

----------------------------------------------------------------------------
(* MatchManager built with a database.  A call runs until it awaits a      *)
(* database run (dbRun) and goes on when that run has completed; in        *)
(* between, further calls can be made and the autosave timer can fire.     *)
(* `calls` holds the calls awaiting a run: for each, the run awaited and   *)
(* the script of what the handler still has to do.                         *)

\* new MatchManager(db) on a database with empty tables; failed: the
\* database runs that have failed so far
EmptyDb ==
    [open |-> TRUE, matches |-> <<>>, matchPlayers |-> {}, legStarters |-> {},
     throws |-> <<>>, failed |-> 0]

\* Date.now(), in milliseconds since the epoch, at the model's time `time`
DateNow(time) == Epoch + time

\* the fields of the Match object that only matter with a database
WithId(m, time) == m @@ [id |-> 0, timestamp |-> DateNow(time), isAutosaved |-> FALSE]

\* saveMatchToDb: the parameters of INSERT INTO matches
MatchRow(m) ==
    [mode |-> m.mode, legsToWin |-> m.legsToWin, currentLeg |-> m.currentLeg,
     activePlayerIndex |-> m.activePlayerIndex, state |-> m.state,
     settings |-> m.settings, timestamp |-> m.timestamp,
     isAutosaved |-> m.isAutosaved]

\* saveMatchToDb: the parameters of INSERT INTO match_players
PlayerRow(matchId, player) ==
    [matchId |-> matchId, playerId |-> player.id, position |-> player.position,
     originalScore |-> player.originalScore]

\* saveMatchToDb: the parameters of INSERT INTO leg_starters, for index i
StarterRow(matchId, i, legStarters) ==
    [matchId |-> matchId, legNumber |-> i + 1, playerId |-> legStarters[i + 1]]

\* the throw object a call holds, as it is now: correctThrow writes to the
\* same object once it is in a history
CurrentThrow(m, throwData) ==
    LET at == FindThrow(m, throwData.id)
    IN IF at = <<0, 0>> THEN throwData ELSE m.players[at[1]].history[at[2]]

\* saveThrowToDb: the parameters of INSERT INTO throws (throwOrder and
\* isValid are not set on the throw: 0)
ThrowRow(m, throwData) ==
    [matchId |-> m.id, playerId |-> throwData.playerId, round |-> throwData.round,
     throwOrder |-> 0, segment |-> throwData.segment, score |-> throwData.score,
     isValid |-> FALSE]

\* updateThrowInDb: UPDATE throws SET segment, score WHERE id = throwData.id;
\* the id of a row of throws is its place in the table
UpdatedThrows(throws, throwData) ==
    [id \in 1..Len(throws) |->
        IF id = throwData.id
        THEN [throws[id] EXCEPT !.segment = throwData.segment,
                                !.score = throwData.score]
        ELSE throws[id]]

Event(name, detail) == [name |-> name, detail |-> detail]

\* what the handler of a call still has to do, in order: the saves it
\* awaits and the events it emits
Script(op, moved, legSet) ==
    CASE op = "createMatch" -> <<"saveMatchToDb", "startAutosaveTimer">>
      [] op = "startMatch" -> <<"saveMatchState", "matchStateChanged">>
      [] op = "endWarmup" -> <<"saveMatchState", "bullshotStarted">>
      [] op = "setBullWinner" -> <<"saveMatchState", "matchStarted">>
      [] op = "processThrow" ->
            (IF legSet THEN <<"saveMatchState", "legChanged">>
             ELSE IF moved THEN <<"saveMatchState", "playerChanged">>
             ELSE <<>>)
                \o <<"saveThrowToDb", "saveMatchState", "throwProcessed">>
      [] op = "correctThrow" ->
            <<"updateThrowInDb", "saveMatchState", "throwCorrected">>
      [] op = "manualPlayerSwitch" -> <<"saveMatchState", "playerChanged">>
      [] op = "endMatch" -> <<"saveMatchState", "matchEnded">>
      [] op = "autosave" -> <<"saveMatchState">>

\* a call on its way: what it will return, its script, the database run it
\* awaits with the parameters of that run, and the locals of saveMatchToDb
NewCall(op, ret, moved, legSet) ==
    [op |-> op, ret |-> ret, script |-> Script(op, moved, legSet),
     awaiting |-> "none", params |-> <<>>, lastID |-> 0, index |-> 0]

Awaits(s, run, params) ==
    [s EXCEPT !.call.awaiting = run, !.call.params = params]

\* the detail of an event: for matchStateAutosaved the isAutosave flag, for
\* the events of a throw the id of the throw
EventDetail(s, name) ==
    IF name = "matchStateAutosaved"
    THEN (IF s.call.op = "autosave" THEN 1 ELSE 0)
    ELSE s.call.ret.throwData.id

\* the handler runs on from the head of its script until it awaits a
\* database run or has nothing left to do
RECURSIVE Continue(_)
Continue(s) ==
    IF s.call.awaiting # "none" \/ s.call.script = <<>> THEN s
    ELSE
    LET item == Head(s.call.script)
        rest == Tail(s.call.script)
        s1 == [s EXCEPT !.call.script = rest]
    IN CASE item = "saveMatchState" ->
              LET m1 == [s.match EXCEPT !.timestamp = DateNow(s.now),
                                        !.isAutosaved = (s.call.op = "autosave")]
                  s2 == [s1 EXCEPT !.match = m1,
                                   !.call.script = <<"matchStateAutosaved">> \o rest]
              IN IF s.db.open /\ m1.id # 0
                 THEN Awaits(s2, "matches", MatchRow(m1))
                 ELSE Continue(s2)
         [] item = "saveMatchToDb" ->
              IF s.db.open THEN Awaits(s1, "matches", MatchRow(s.match))
              ELSE Continue(s1)
         [] item = "saveThrowToDb" ->
              IF s.db.open /\ s.match.id # 0
              THEN Awaits(s1, "throw",
                          ThrowRow(s.match, CurrentThrow(s.match, s.call.ret.throwData)))
              ELSE Continue(s1)
         [] item = "updateThrowInDb" ->
              IF s.db.open
              THEN Awaits(s1, "update", CurrentThrow(s.match, s.call.ret.throwData))
              ELSE Continue(s1)
         [] item = "startAutosaveTimer" ->
              Continue([s1 EXCEPT !.autosaveTimer = TRUE])
         [] OTHER ->
              Continue([s1 EXCEPT
                           !.emitted = Append(@, Event(item, EventDetail(s, item)))])

\* NextInsert where the rotation to the next player is made when the save
\* of a throw has returned, not before it is awaited
NextInsert_RotatesAfterSave(s, kind, i) ==
    IF kind = "player" /\ i < Len(s.match.players)
    THEN Awaits([s EXCEPT !.call.index = i], "player",
                PlayerRow(s.call.lastID, s.match.players[i + 1]))
    ELSE LET j == IF kind = "player" THEN 0 ELSE i
         IN IF j < Len(s.match.legStarters)
            THEN Awaits([s EXCEPT !.call.index = j], "starter",
                        StarterRow(s.call.lastID, j, s.match.legStarters))
            ELSE Continue([s EXCEPT
                     !.match.id = IF s.call.op = "createMatch" THEN s.call.lastID ELSE @,
                     !.match.activePlayerIndex =
                         IF s.call.op = "processThrow"
                         THEN (@ + 1) % Len(s.match.players) ELSE @])

\* saveMatchToDb after a row is in: the next player row (read from the match
\* as it is now), then the next leg-starter row, then the return to the
\* caller; createMatch then sets this.match.id
NextInsert(s, kind, i) ==
    IF kind = "player" /\ i < Len(s.match.players)
    THEN Awaits([s EXCEPT !.call.index = i], "player",
                PlayerRow(s.call.lastID, s.match.players[i + 1]))
    ELSE LET j == IF kind = "player" THEN 0 ELSE i
         IN IF j < Len(s.match.legStarters)
            THEN Awaits([s EXCEPT !.call.index = j], "starter",
                        StarterRow(s.call.lastID, j, s.match.legStarters))
            ELSE Continue([s EXCEPT !.match.id =
                               IF s.call.op = "createMatch" THEN s.call.lastID ELSE @])

\* loadMatch: the rows of match_players of a match, ORDER BY position
RECURSIVE ByPosition(_)
ByPosition(rows) ==
    IF rows = {} THEN <<>>
    ELSE LET first == CHOOSE r \in rows : \A q \in rows : r.position <= q.position
         IN <<first>> \o ByPosition(rows \ {first})

\* loadMatch: the throws of a player, ORDER BY round (rows of one round in
\* the order of the table), each with the id of its row
RECURSIVE ByRound(_, _, _, _)
ByRound(throws, matchId, playerId, round) ==
    IF \A id \in 1..Len(throws) : throws[id].round < round THEN <<>>
    ELSE LET ids == {id \in 1..Len(throws) :
                        /\ throws[id].matchId = matchId
                        /\ throws[id].playerId = playerId
                        /\ throws[id].round = round}
             inRound == [k \in 1..Cardinality(ids) |->
                            CHOOSE id \in ids : Cardinality({j \in ids : j < id}) = k - 1]
         IN [k \in 1..Cardinality(ids) |->
                [id |-> inRound[k], playerId |-> playerId, round |-> round,
                 throwIndex |-> 0, segment |-> throws[inRound[k]].segment,
                 score |-> throws[inRound[k]].score]]
            \o ByRound(throws, matchId, playerId, round + 1)

\* loadMatch, once its queries have returned: the row of the match has no
\* `scores` (saveMatchToDb writes none) and its settings hold no legsToWin,
\* so scores, flags, leg, round, leg starters, legsToWin and statistics are
\* the defaults of the code
loadMatch(database, matchId, time) ==
    LET row == database.matches[matchId]
        settings == row.settings
        matchPlayers == ByPosition({mp \in database.matchPlayers : mp.matchId = matchId})
        loaded == [i \in 1..Len(matchPlayers) |->
                      LET history == ByRound(database.throws, matchId,
                                             matchPlayers[i].playerId, 1)
                      IN [id |-> matchPlayers[i].playerId,
                          position |-> matchPlayers[i].position,
                          score |-> settings.startingScore,
                          isActive |-> FALSE,
                          isWinner |-> FALSE,
                          history |-> history,
                          currentTurn |-> <<>>,
                          originalScore |-> settings.startingScore,
                          dartsThrown |-> Len(history),
                          legsWon |-> 0]]
        players == [loaded EXCEPT ![1].isActive = TRUE]
    IN [id |-> matchId,
        players |-> players,
        legsToWin |-> DefaultLegsToWin,
        currentLeg |-> 1,
        activePlayerIndex |-> 0,
        mode |-> row.mode,
        state |-> row.state,
        settings |-> settings,
        stats |-> initMatchStats({players[i].id : i \in 1..Len(players)},
                                 DefaultLegsToWin),
        legStarters |-> <<players[1].id>>,
        round |-> 1,
        timestamp |-> DateNow(time),
        isAutosaved |-> FALSE]

\* Caught where the exception is not caught: the call is rejected
Caught_Rethrows(s) ==
    [s EXCEPT !.call.script = <<>>, !.call.ret.ok = FALSE]

\* a database run has failed: the exception leaves saveMatchToDb,
\* saveThrowToDb or updateThrowInDb and is caught and logged by their caller
\* (createMatch, saveMatchState, processThrow, correctThrow), which goes on
Caught(s) == Continue(s)

\* the database run a call awaits has completed, or has failed
Complete(s, ok) ==
    LET c == s.call
        s0 == [s EXCEPT !.call.awaiting = "none", !.call.params = <<>>,
                        !.db.failed = IF ok THEN @ ELSE @ + 1]
    IN IF ~ok THEN Caught(s0)
       ELSE CASE c.awaiting = "matches" ->
                   NextInsert([s0 EXCEPT !.db.matches = Append(@, c.params),
                                         !.call.lastID = Len(s.db.matches) + 1],
                              "player", 0)
              [] c.awaiting = "player" ->
                   NextInsert([s0 EXCEPT !.db.matchPlayers = @ \cup {c.params}],
                              "player", c.index + 1)
              [] c.awaiting = "starter" ->
                   NextInsert([s0 EXCEPT !.db.legStarters = @ \cup {c.params}],
                              "starter", c.index + 1)
              [] c.awaiting = "throw" ->
                   Continue([s0 EXCEPT !.db.throws = Append(@, c.params)])
              [] c.awaiting = "update" ->
                   Continue([s0 EXCEPT !.db.throws = UpdatedThrows(@, c.params)])

\* the instance as a call finds it, at the time `clock`
Instance(call) ==
    [match |-> match, autosaveTimer |-> autosaveTimer, db |-> db,
     emitted |-> emitted, now |-> clock, call |-> call]

Finished(call) == call.awaiting = "none" /\ call.script = <<>>

\* the autosave tick has no caller; every other call settles its promise
Settled(call) ==
    IF Finished(call) /\ call.op # "autosave" THEN call.ret ELSE result

\* a call has run up to its first await (or to its end)
Starts(s) ==
    /\ match' = s.match
    /\ autosaveTimer' = s.autosaveTimer
    /\ db' = s.db
    /\ emitted' = s.emitted
    /\ calls' = IF Finished(s.call) THEN calls ELSE Append(calls, s.call)
    /\ result' = Settled(s.call)
    /\ clock' = clock + 1
    /\ UNCHANGED probe

\* a call can be made: on an instance with a database, at one of the times
\* 1 .. MaxDbCalls, while fewer than MaxInFlight calls await the database.
\* The behaviours are followed up to the return of the calls in flight when
\* the last of MaxDbFailures runs fails, and up to the load by the fresh
\* instance.
CanCall ==
    /\ db.open
    /\ clock <= MaxDbCalls
    /\ Len(calls) < MaxInFlight
    /\ db.failed < MaxDbFailures
    /\ ~probe.called

\* the inputs of the calls on an instance with a database
DbSettingsInputs == {Settings(0, "undefined", "undefined", "undefined")}

DbThrowInputs(s) == {Dart(T20, 60), Dart(D20, s)}

DbCorrectionInputs == {Dart(MISS, 0)}

CreateMatchCalled ==
    /\ CanCall
    /\ IF HasMatch THEN Fails("createMatch", 0, "AlreadyInProgress")
       ELSE \/ Fails("createMatch", 0, "TypeError")
            \/ \E settings \in DbSettingsInputs :
                   LET m == NewMatch(PlayerList(MaxPlayers), "x01", MaxLegsToWin,
                                     settings)
                       ret == [Returned("createMatch", 0) EXCEPT !.args = settings]
                   IN Starts(Continue(
                          [Instance(NewCall("createMatch", ret, FALSE, FALSE))
                              EXCEPT !.match = WithId(m, clock)]))

TransitionCalled(op, from, to) ==
    /\ CanCall
    /\ IF ~HasMatch THEN Fails(op, 0, "NotFound")
       ELSE IF match.state \notin from THEN Fails(op, 0, "InvalidTransition")
       ELSE Starts(Continue(
                [Instance(NewCall(op, Returned(op, 0), FALSE, FALSE))
                    EXCEPT !.match.state = to]))

StartMatchCalled == TransitionCalled("startMatch", {"pending"}, "warmup")

EndWarmupCalled == TransitionCalled("endWarmup", {"warmup"}, "bullshot")

SetBullWinnerCalled ==
    /\ CanCall
    /\ \E playerId \in {PlayerId(position) : position \in 1..MaxPlayers} :
        IF ~HasMatch THEN Fails("setBullWinner", playerId, "NotFound")
        ELSE IF match.state # "bullshot"
        THEN Fails("setBullWinner", playerId, "InvalidTransition")
        ELSE IF findPlayerIndex(match.players, playerId) = -1
        THEN Fails("setBullWinner", playerId, "NotFound")
        ELSE Starts(Continue(
                 [Instance(NewCall("setBullWinner",
                                   Returned("setBullWinner", playerId), FALSE, FALSE))
                     EXCEPT !.match = SetBullWinnerBody(match, playerId)]))

\* processThrow for the player whose turn it is (for the first player where
\* there is no turn): every assignment to the match is made before the
\* first await, in setupNextLeg and moveToNextPlayer too
ProcessThrowStarts ==
    LET playerId == IF HasMatch THEN match.players[ActiveIdx(match)].id
                    ELSE PlayerId(1)
        error == ProcessThrowError(match, playerId)
    IN IF error # "none" THEN Fails("processThrow", playerId, error)
       ELSE \E dart \in DbThrowInputs(match.settings.startingScore) :
           LET out == ProcessThrowBody(match, playerId, dart.segment,
                                       dart.score, DateNow(clock))
               legSet == out.result.legWon /\ ~out.result.matchWon
               moved == out.result.throwData.throwIndex = 3
                            /\ ~out.result.legWon
           IN Starts(Continue(
                  [Instance(NewCall("processThrow", out.result, moved, legSet))
                      EXCEPT !.match = out.match]))

ProcessThrowCalled == CanCall /\ ProcessThrowStarts

CorrectThrowCalled ==
    /\ CanCall
    /\ IF ~HasMatch THEN Fails("correctThrow", 0, "NotFound")
       ELSE \E throwId \in ThrowIdInputs(match) :
           LET at == FindThrow(match, throwId) IN
           IF at = <<0, 0>>
           THEN /\ result' = [Threw("correctThrow", 0, "NotFound") EXCEPT
                                  !.args = Correction(throwId, Dart(MISS, 0))]
                /\ UNCHANGED <<match, autosaveTimer, clock, probe, persistence>>
           ELSE \E dart \in DbCorrectionInputs :
               LET out == CorrectThrowBody(match, at, dart.segment, dart.score)
                   ret == [out.result EXCEPT !.args = Correction(throwId, dart)]
               IN Starts(Continue(
                      [Instance(NewCall("correctThrow", ret, FALSE, FALSE))
                          EXCEPT !.match = out.match]))

\* with no match, moveToNextPlayer returns at once
ManualPlayerSwitchCalled ==
    /\ CanCall
    /\ LET ret == Returned("manualPlayerSwitch", 0)
       IN IF ~HasMatch
          THEN Starts(Instance([NewCall("manualPlayerSwitch", ret, FALSE, FALSE)
                                   EXCEPT !.script = <<>>]))
          ELSE Starts(Continue(
                   [Instance(NewCall("manualPlayerSwitch", ret, FALSE, FALSE))
                       EXCEPT !.match = moveToNextPlayer(match)]))

\* endMatch() without a winner; the summary service it then requires is no
\* part of the engine and is left out
EndMatchCalled ==
    /\ CanCall
    /\ IF ~HasMatch THEN Fails("endMatch", 0, "NotFound")
       ELSE Starts(Continue(
                [Instance(NewCall("endMatch", Returned("endMatch", 0), FALSE, FALSE))
                    EXCEPT !.match = EndMatchBody(match, 0),
                           !.autosaveTimer = FALSE]))

\* startAutosaveTimer: the interval fires and calls saveMatchState(true)
AutosaveTick ==
    /\ CanCall
    /\ autosaveTimer
    /\ Starts(Continue(Instance(NewCall("autosave", Returned("autosave", 0),
                                        FALSE, FALSE))))

\* a fresh instance, new MatchManager(db), loads the match: by the id the
\* first instance holds, or by the id of the latest row of matches.  Its
\* queries are taken as one read of the tables.  loadMatch throws where
\* there is no such row, and on players[0] where the match has no player
\* rows; otherwise probe.out is the match of the fresh instance.
LoadMatch ==
    /\ db.open
    /\ HasMatch
    /\ ~probe.called
    /\ \E matchId \in {match.id, Len(db.matches)} :
           probe' =
               [called |-> TRUE, matchId |-> matchId,
                error |-> IF matchId \notin 1..Len(db.matches) THEN "NotFound"
                          ELSE IF \A mp \in db.matchPlayers : mp.matchId # matchId
                          THEN "TypeError"
                          ELSE "none",
                out |-> IF /\ matchId \in 1..Len(db.matches)
                           /\ \E mp \in db.matchPlayers : mp.matchId = matchId
                        THEN loadMatch(db, matchId, clock)
                        ELSE NoMatch]
    /\ UNCHANGED <<match, autosaveTimer, clock, result, persistence>>

\* a database run completes, or fails (at most MaxDbFailures runs fail), and
\* the call awaiting it goes on
DbRunCompletes ==
    \E i \in 1..Len(calls), ok \in BOOLEAN :
        /\ ok \/ db.failed < MaxDbFailures
        /\ LET s == Complete(Instance(calls[i]), ok)
           IN /\ match' = s.match
              /\ autosaveTimer' = s.autosaveTimer
              /\ db' = s.db
              /\ emitted' = s.emitted
              /\ calls' = IF Finished(s.call)
                          THEN SubSeq(calls, 1, i - 1) \o SubSeq(calls, i + 1, Len(calls))
                          ELSE [calls EXCEPT ![i] = s.call]
              /\ result' = Settled(s.call)
              /\ UNCHANGED <<clock, probe>>

InitPersistence ==
    /\ match = NoMatch
    /\ autosaveTimer = FALSE
    /\ db = EmptyDb
    /\ calls = <<>>
    /\ emitted = <<>>
    /\ clock = 1
    /\ result = Returned("constructor", 0)
    /\ probe = NoProbe

Request ==
    \/ CreateMatchCalled
    \/ StartMatchCalled
    \/ EndWarmupCalled
    \/ SetBullWinnerCalled
    \/ ProcessThrowCalled
    \/ ManualPlayerSwitchCalled
    \/ CorrectThrowCalled
    \/ EndMatchCalled
    \/ AutosaveTick

\* the caller awaits every call before it makes the next, and the timer
\* fires between calls
NextPersistence ==
    /\ CallerContinues
    /\ \/ calls = <<>> /\ Request
       \/ calls = <<>> /\ LoadMatch
       \/ DbRunCompletes

SpecPersistence == InitPersistence /\ [][NextPersistence]_vars

\* the caller awaits the calls that set the match up; once the first leg is
\* being played, calls are made, and the timer fires, while earlier calls
\* still await the database
NextConcurrent ==
    /\ CallerContinues
    /\ \/ calls = <<>> /\ clock <= MaxOverlapCalls /\ Request
       \/ calls # <<>> /\ clock <= MaxOverlapCalls /\ match.state = "active" /\ Request
       \/ DbRunCompletes

SpecConcurrent == InitPersistence /\ [][NextConcurrent]_vars

----------------------------------------------------------------------------
(* The first leg under way on an instance with a database: throws arrive   *)
(* and the timer fires while earlier throws still await the database.      *)

\* the match as the k-th of the calls createMatch, startMatch, endWarmup
\* and setBullWinner(playerId) saves it, at the time k
SetupSnapshot(k, playerId) ==
    LET created == WithId(NewMatch(PlayerList(MaxPlayers), "x01", MaxLegsToWin,
                                   Settings(0, "undefined", "undefined", "undefined")), k)
    IN CASE k = 1 -> created
         [] k = 2 -> [created EXCEPT !.state = "warmup"]
         [] k = 3 -> [created EXCEPT !.state = "bullshot"]
         [] k = 4 -> SetBullWinnerBody([created EXCEPT !.state = "bullshot"], playerId)

\* the tables after the four calls: every save has inserted a row of
\* matches and, under the id of that row, the rows of its players and of
\* its leg starters
DbAfterSetup(playerId) ==
    [open |-> TRUE,
     matches |-> [k \in 1..4 |-> MatchRow(SetupSnapshot(k, playerId))],
     matchPlayers |-> {PlayerRow(k, SetupSnapshot(k, playerId).players[i]) :
                           k \in 1..4, i \in 1..MaxPlayers},
     legStarters |-> {StarterRow(k, 0, SetupSnapshot(k, playerId).legStarters) :
                          k \in 1..4},
     throws |-> <<>>,
     failed |-> 0]

\* the events the four calls have emitted
EmittedAfterSetup ==
    <<Event("matchStateAutosaved", 0), Event("matchStateChanged", 0),
      Event("matchStateAutosaved", 0), Event("bullshotStarted", 0),
      Event("matchStateAutosaved", 0), Event("matchStarted", 0)>>

\* setBullWinner(playerId) has returned; the match holds the id createMatch
\* gave it, the id of the first row of matches
InitThrows ==
    /\ \E playerId \in {PlayerId(position) : position \in 1..MaxPlayers} :
           /\ match = [SetupSnapshot(4, playerId) EXCEPT !.id = 1]
           /\ db = DbAfterSetup(playerId)
           /\ result = Returned("setBullWinner", playerId)
    /\ autosaveTimer = TRUE
    /\ calls = <<>>
    /\ emitted = EmittedAfterSetup
    /\ clock = 5
    /\ probe = NoProbe

\* a throw can arrive, or the timer fire, at one of the times
\* 5 .. 4 + MaxThrowCalls while fewer than MaxInFlight calls await the
\* database
CanThrow ==
    /\ clock <= 4 + MaxThrowCalls
    /\ Len(calls) < MaxInFlight

ProcessThrowArrives == CanThrow /\ ProcessThrowStarts

AutosaveFires ==
    /\ CanThrow
    /\ autosaveTimer
    /\ Starts(Continue(Instance(NewCall("autosave", Returned("autosave", 0),
                                        FALSE, FALSE))))

\* the database run a call awaits completes; no run fails
ThrowRunCompletes == DbRunCompletes /\ db'.failed = db.failed

NextThrows ==
    /\ CallerContinues
    /\ \/ ProcessThrowArrives
       \/ AutosaveFires
       \/ ThrowRunCompletes

SpecThrows == InitThrows /\ [][NextThrows]_vars

----------------------------------------------------------------------------
(* Properties *)

ActivePlayers(m) == {i \in 1..Len(m.players) : m.players[i].isActive}

\* the step is a call of processThrow that returned
ProcessThrowReturns == result'.op = "processThrow" /\ result'.ok

\* C1: while the match state is 'active', exactly one player has
\* isActive = true and that player is players[activePlayerIndex].
C1_OneActivePlayer ==
    (HasMatch /\ match.state = "active") =>
        /\ match.activePlayerIndex \in 0..(Len(match.players) - 1)
        /\ ActivePlayers(match) = {ActiveIdx(match)}

\* C1 is exercised: a manual switch in the second leg of a match of several
\* players, i.e. after setBullWinner, a leg win and the next-leg setup
C1_Witness ==
    /\ HasMatch /\ match.state = "active"
    /\ Len(match.players) >= 2
    /\ match.currentLeg = 2
    /\ result.op = "manualPlayerSwitch"
    /\ ActivePlayers(match) = {ActiveIdx(match)}

\* C2: while the match state is not 'active' (pending, warmup, bullshot or
\* completed), no player has isActive = true.
C2_NoActivePlayerOutsidePlay ==
    (HasMatch /\ match.state # "active") => ActivePlayers(match) = {}

RECURSIVE SumLegsWon(_)
SumLegsWon(players) ==
    IF players = <<>> THEN 0
    ELSE Head(players).legsWon + SumLegsWon(Tail(players))

\* C3: while the match is not completed, the sum of the players' legsWon
\* fields equals currentLeg - 1.
C3_LegsWonCountLegs ==
    (HasMatch /\ match.state # "completed") =>
        SumLegsWon(match.players) = match.currentLeg - 1

ProbeCounts ==
    /\ probe.called
    /\ probe.throwScore >= 0
    /\ probe.settings.doubleIn = "true"
           => probe.currentScore # ResolveStartingScore("x01", probe.settings)

\* the options the validator was called with
ProbeOptions == ValidatorOptions("x01", probe.settings)

ProbeLeaves == probe.currentScore - probe.throwScore

\* C5: with doubleOut enabled, validateX01Throw classifies every throw that
\* leaves exactly 1 as a bust whatever the segment, every throw that leaves
\* exactly 0 on a non-double segment as a bust, and every throw that leaves
\* exactly 0 on a double segment (D.. or DBULL) as a game shot.
C5_DoubleOutFinish ==
    (ProbeCounts /\ ProbeOptions.doubleOut) =>
        /\ ProbeLeaves = 1 => (probe.out.bust /\ ~probe.out.gameShot)
        /\ (ProbeLeaves = 0 /\ probe.segment \notin {D20, DBULL})
               => (probe.out.bust /\ ~probe.out.gameShot)
        /\ (ProbeLeaves = 0 /\ probe.segment \in {D20, DBULL})
               => (probe.out.gameShot /\ ~probe.out.bust /\ probe.out.valid)

\* C5 is exercised: a finish on the bullseye counted as a double, in a match
\* with double-in whose leg the player has opened
C5_Witness ==
    /\ ProbeCounts /\ ProbeOptions.doubleOut
    /\ probe.settings.doubleIn = "true"
    /\ ProbeLeaves = 0 /\ probe.currentScore > 0
    /\ probe.segment = DBULL
    /\ probe.out.gameShot

\* C6: in a match created with masterOut = true and doubleOut left
\* unspecified, a throw that brings the score to exactly 0 is a game shot
\* when the segment is a double or a triple, and a bust when it is a single.
C6_MasterOutFinish ==
    (/\ ProbeCounts
     /\ probe.settings.masterOut = "true"
     /\ probe.settings.doubleOut = "undefined"
     /\ ProbeLeaves = 0) =>
        IF probe.segment \in {D20, DBULL, T20}
        THEN probe.out.gameShot /\ ~probe.out.bust
        ELSE probe.out.bust /\ ~probe.out.gameShot

\* C7: with doubleIn enabled, for every supported starting score, a
\* non-double throw of a player whose score still equals the starting score
\* of the match is accepted with zero effect (valid, not a bust, score
\* unchanged), and a double throw reduces the score.
C7_DoubleInOpening ==
    (/\ probe.called
     /\ probe.settings.doubleIn = "true"
     /\ probe.settings.startingScore \in SupportedStartingScores
     /\ probe.currentScore = probe.settings.startingScore
     /\ probe.throwScore \in 1..(probe.currentScore - 2)) =>
        /\ probe.out.valid /\ ~probe.out.bust /\ probe.out.hasNewScore
        /\ probe.out.newScore =
               IF probe.segment \in {D20, DBULL}
               THEN probe.currentScore - probe.throwScore
               ELSE probe.currentScore

\* C8: processThrow called with a negative score fails, and the match is
\* unchanged.
C8_NegativeScoreRejected ==
    [][(result'.op = "processThrow" /\ result'.throwData # NoThrow
            /\ result'.throwData.score < 0)
           => (~result'.ok /\ match' = match)]_vars

\* the cases in which processThrow(playerId, ..) is to be refused
ThrowRefused(m, playerId) ==
    \/ m = NoMatch
    \/ m.state # "active"
    \/ \A i \in 1..Len(m.players) : m.players[i].id # playerId
    \/ m.players[m.activePlayerIndex + 1].id # playerId
    \/ Len(m.players[m.activePlayerIndex + 1].currentTurn) >= 3

\* C9: processThrow fails, and leaves the whole match unchanged, when the
\* match state is not 'active', when playerId is not a player of the match,
\* when that player is not players[activePlayerIndex], or when the player's
\* currentTurn already holds 3 throws.
C9_RefusedThrowChangesNothing ==
    [][(result'.op = "processThrow" /\ ThrowRefused(match, result'.playerId))
           => (~result'.ok /\ match' = match)]_vars

\* C9 is exercised: in an active match of several players, a player of the
\* match who is not the active player has thrown and has been refused
C9_Witness ==
    /\ HasMatch /\ match.state = "active"
    /\ result.op = "processThrow" /\ ~result.ok
    /\ result.error = "NotYourTurn"
    /\ \E i \in 1..Len(match.players) :
           /\ match.players[i].id = result.playerId
           /\ i # ActiveIdx(match)
    /\ match.players[ActiveIdx(match)].currentTurn # <<>>

\* the place of a state on the path pending -> warmup -> bullshot -> active
\* -> completed
StateRank(state) ==
    CASE state = "pending" -> 1
      [] state = "warmup" -> 2
      [] state = "bullshot" -> 3
      [] state = "active" -> 4
      [] state = "completed" -> 5

\* the states from which each guarded phase call is accepted
AcceptedFrom(op) ==
    CASE op = "startWarmup" -> {"pending", "warmup"}
      [] op = "endWarmup" -> {"warmup"}
      [] op = "recordBullShot" -> {"bullshot"}
      [] op = "setBullWinner" -> {"bullshot"}

\* C10: the match state only moves forward along pending -> warmup ->
\* bullshot -> active -> completed; startWarmup succeeds only from pending or
\* warmup, endWarmup only from warmup, recordBullShot and setBullWinner only
\* from bullshot, and each fails with the match unchanged when called from
\* another state; the state 'active' is entered only by setBullWinner.
C10_StateMovesForward ==
    [][HasMatch =>
          /\ match' # NoMatch
          /\ StateRank(match'.state) >= StateRank(match.state)
          /\ (result'.op \in {"startWarmup", "endWarmup", "recordBullShot",
                              "setBullWinner"}) =>
                 IF match.state \in AcceptedFrom(result'.op)
                 THEN result'.ok =>
                          match'.state =
                              CASE result'.op = "startWarmup" -> "warmup"
                                [] result'.op = "endWarmup" -> "bullshot"
                                [] result'.op = "recordBullShot" -> "bullshot"
                                [] result'.op = "setBullWinner" -> "active"
                 ELSE ~result'.ok /\ match' = match
          /\ (match'.state = "active" /\ match.state # "active")
                 => (result'.op = "setBullWinner" /\ result'.ok)]_vars

\* C10 is exercised: startWarmup has been called on an active match, which
\* has gone through every earlier state, and has been refused
C10_Witness ==
    /\ HasMatch /\ match.state = "active"
    /\ result.op = "startWarmup" /\ ~result.ok
    /\ result.error = "InvalidTransition"

\* the positions (1-based) of the players of m with the given id
PlayersWithId(m, playerId) ==
    {i \in 1..Len(m.players) : m.players[i].id = playerId}

\* C11: setBullWinner(playerId) in state bullshot with a player of the match
\* records playerId as legStarters[0], makes that player the only active
\* player with activePlayerIndex pointing at them, and moves the state to
\* active; with an unknown playerId it fails and the match is unchanged;
\* recordBullShot never changes the match.
C11_BullWinnerStartsLegOne ==
    [][/\ (result'.op = "setBullWinner" /\ HasMatch /\ match.state = "bullshot") =>
              IF PlayersWithId(match, result'.playerId) # {}
              THEN /\ result'.ok
                   /\ match'.state = "active"
                   /\ match'.legStarters[1] = result'.playerId
                   /\ ActivePlayers(match') = PlayersWithId(match, result'.playerId)
                   /\ ActivePlayers(match') = {match'.activePlayerIndex + 1}
              ELSE ~result'.ok /\ match' = match
       /\ result'.op = "recordBullShot" => match' = match]_vars

\* C11 is exercised: the bull has been won by a player other than the first,
\* after a manual switch before the bull shot had moved the active flag
C11_Witness ==
    /\ HasMatch /\ match.state = "active"
    /\ result.op = "setBullWinner" /\ result.ok
    /\ result.playerId = PlayerId(MaxPlayers)
    /\ match.legStarters[1] = PlayerId(MaxPlayers)
    /\ match.round > 1

\* what of a match is to stay as it is once the match is completed
Frozen(m) ==
    [players |-> [i \in 1..Len(m.players) |->
                     [score |-> m.players[i].score,
                      isActive |-> m.players[i].isActive,
                      isWinner |-> m.players[i].isWinner,
                      history |-> m.players[i].history]],
     activePlayerIndex |-> m.activePlayerIndex,
     round |-> m.round,
     currentLeg |-> m.currentLeg,
     state |-> m.state]

\* C12: once the match state is completed, every later call of processThrow,
\* correctThrow, manualPlayerSwitch, endMatch, startWarmup, endWarmup or
\* setBullWinner leaves the players' scores, isActive and isWinner flags,
\* histories, activePlayerIndex, round, currentLeg and state unchanged.
C12_CompletedIsImmutable ==
    [][(HasMatch /\ match.state = "completed") => Frozen(match') = Frozen(match)]_vars

\* the legs a player has won, as the statistics of the match count them
LegsWonBy(m, playerId) == m.stats.players[playerId].legsWon

Winners(m) == {i \in 1..Len(m.players) : m.players[i].isWinner}

\* C13: on a game shot, processThrow reports matchWon and moves the state to
\* completed exactly when the thrower's legs-won count, this leg included, is
\* at least legsToWin; otherwise the next leg is set up and the state stays
\* active.  A completed state reached by a match-winning throw has exactly
\* one player with isWinner = true, and while the state is active every
\* player has fewer than legsToWin legs won.
C13_MatchWonAtLegsToWin ==
    [][/\ (ProcessThrowReturns /\ result'.gameShot) =>
              LET playerId == result'.playerId
                  reached == LegsWonBy(match, playerId) + 1 >= match.legsToWin
              IN /\ LegsWonBy(match', playerId) = LegsWonBy(match, playerId) + 1
                 /\ result'.matchWon = reached
                 /\ match'.state = IF reached THEN "completed" ELSE "active"
                 /\ ~reached => match'.currentLeg = match.currentLeg + 1
                 /\ reached => Winners(match') = PlayersWithId(match, playerId)
       /\ (match' # NoMatch /\ match'.state = "active") =>
              \A i \in 1..Len(match'.players) :
                  LegsWonBy(match', match'.players[i].id) < match'.legsToWin]_vars

\* C13 is exercised: in a match of several players over several legs, a
\* throw has won the match after an earlier throw had won a leg only
C13_Witness ==
    /\ HasMatch /\ match.state = "completed"
    /\ result.op = "processThrow" /\ result.matchWon
    /\ Len(match.players) >= 2
    /\ match.legsToWin = MaxLegsToWin
    /\ match.currentLeg = MaxLegsToWin
    /\ Cardinality(Winners(match)) = 1

\* the position (1-based) of the starter of leg k in the player order
StarterPosition(m, k) ==
    CHOOSE i \in 1..Len(m.players) : m.players[i].id = m.legStarters[k]

\* C14: leg starters rotate round-robin over the player order whoever wins
\* the legs: the starter of leg 1 is the bull winner, the starter of every
\* leg k > 1 is the player one position after the starter of leg k-1 (modulo
\* the number of players), and a new leg begins with its starter active.
C14_StartersRotate ==
    [][/\ (result'.op = "setBullWinner" /\ result'.ok)
              => match'.legStarters = <<result'.playerId>>
       /\ (match' # NoMatch /\ match'.state \in {"active", "completed"}) =>
              /\ Len(match'.legStarters) = match'.currentLeg
              /\ \A k \in 2..match'.currentLeg :
                     StarterPosition(match', k) =
                         (StarterPosition(match', k - 1) % Len(match'.players)) + 1
       /\ (HasMatch /\ match' # NoMatch /\ match'.currentLeg # match.currentLeg) =>
              /\ match'.currentLeg = match.currentLeg + 1
              /\ match'.activePlayerIndex + 1 = StarterPosition(match', match'.currentLeg)
              /\ \A k \in 1..match.currentLeg :
                     match'.legStarters[k] = match.legStarters[k]]_vars

\* C14 is exercised: with several players, the third leg has begun after the
\* player who did not start the first leg has won it
C14_Witness ==
    /\ HasMatch /\ match.state = "active"
    /\ Len(match.players) >= 2
    /\ match.currentLeg = 3
    /\ result.op = "processThrow" /\ result.legWon
    /\ \E i \in 1..Len(match.players) :
           /\ LegsWonBy(match, match.players[i].id) >= 1
           /\ match.players[i].id # match.legStarters[1]

\* C15: a bust on the first or second dart of a turn ends the turn with that
\* dart: the turn is committed and the next player becomes active.
C15_BustEndsTurn ==
    [][(ProcessThrowReturns /\ result'.bust /\ result'.throwData.throwIndex < 3) =>
           LET idx == ActiveIdx(match)
           IN /\ match'.players[idx].currentTurn = <<>>
              /\ match'.activePlayerIndex =
                     (match.activePlayerIndex + 1) % Len(match.players)]_vars

\* C16: statistics are accumulated on every processed throw: the thrower's
\* record counts the dart in dartsThrown, adds its score to pointsScored
\* unless it is a bust, counts a game shot in checkoutSuccesses, and keeps
\* averageThrow derived from those counters.
C16_ThrowsAreCounted ==
    [][ProcessThrowReturns =>
           LET before == match.stats.players[result'.playerId]
               after == match'.stats.players[result'.playerId]
               scored == result'.validation.valid /\ ~result'.bust
           IN /\ after.dartsThrown = before.dartsThrown + 1
              /\ after.pointsScored =
                     before.pointsScored
                         + (IF scored THEN result'.throwData.score ELSE 0)
              /\ after.checkoutSuccesses =
                     before.checkoutSuccesses + (IF result'.gameShot THEN 1 ELSE 0)
              /\ after.averageThrow =
                     Quotient(after.pointsScored * 3, after.dartsThrown)]_vars

\* the stored quotient q is the number n / d
IsQuotient(q, n, d) == q.den > 0 /\ q.num * d = n * q.den

\* counted on the raw throw list
DirectPoints(throws) ==
    SumNumbers([i \in 1..Len(throws) |->
                   IF throws[i].isBust THEN 0 ELSE throws[i].score])

DirectAttempts(throws) ==
    Cardinality({i \in 1..Len(throws) : throws[i].isCheckoutAttempt})

DirectSuccesses(throws) ==
    Cardinality({i \in 1..Len(throws) : throws[i].isSuccessfulCheckout})

\* C17: replaying a throw history through the statistics tracker from an
\* empty record gives the averageThrow (pointsScored / dartsThrown * 3), the
\* checkoutPercentage (successes / attempts * 100, 0 with no attempts) and
\* the dartsPerLeg (sum(legDarts) / legsWon) that are computed directly from
\* the raw throw list; a quotient over nothing is 0.
C17_ReplayMatchesDirect ==
    /\ IF probe.throws = <<>> THEN probe.stats.averageThrow = ZeroQuotient
       ELSE IsQuotient(probe.stats.averageThrow,
                       DirectPoints(probe.throws) * 3, Len(probe.throws))
    /\ IF DirectAttempts(probe.throws) = 0
       THEN probe.stats.checkoutPercentage = ZeroQuotient
       ELSE IsQuotient(probe.stats.checkoutPercentage,
                       DirectSuccesses(probe.throws) * 100,
                       DirectAttempts(probe.throws))
    /\ IF probe.legs = <<>> THEN probe.stats.dartsPerLeg = ZeroQuotient
       ELSE IsQuotient(probe.stats.dartsPerLeg,
                       SumNumbers(probe.legs), Len(probe.legs))

\* C17 is exercised: a history with a bust, a missed checkout and a
\* checkout, and two legs won in different numbers of darts
C17_Witness ==
    /\ Len(probe.throws) = MaxReplayThrows
    /\ \E i \in 1..Len(probe.throws) : probe.throws[i].isBust
    /\ DirectSuccesses(probe.throws) = 1
    /\ DirectAttempts(probe.throws) = 2
    /\ probe.legs = <<3, 4>>
    /\ probe.stats.dartsPerLeg = [num |-> 7, den |-> 2]
    /\ probe.stats.checkoutPercentage = [num |-> 50, den |-> 1]

\* C18: getCheckoutSuggestion returns ["T20","T20","BULL"] for 170 with 3
\* darts left, ["D20"] for 40 with 1 dart left, and null for every bogey
\* score (169, 168, 166, 165, 163, 162, 159), every score above 170 and
\* every score <= 0, whatever the darts left.
C18_CheckoutExamples ==
    probe.called =>
        /\ (probe.score = 170 /\ probe.dartsLeft = 3)
               => probe.out = [isNull |-> FALSE,
                               path |-> << <<"T", "2", "0">>, <<"T", "2", "0">>,
                                           <<"B", "U", "L", "L">> >>]
        /\ (probe.score = 40 /\ probe.dartsLeft = 1)
               => probe.out = [isNull |-> FALSE, path |-> << <<"D", "2", "0">> >>]
        /\ (probe.score \in {169, 168, 166, 165, 163, 162, 159}
                \/ probe.score > 170 \/ probe.score <= 0)
               => probe.out.isNull

\* C18 is exercised: a bogey score has been asked for with 3 darts left
C18_Witness ==
    /\ probe.called
    /\ probe.score = 169 /\ probe.dartsLeft = 3
    /\ probe.out.isNull

\* the decimal number a sequence of digit characters writes
RECURSIVE StringToNumber(_)
StringToNumber(chars) ==
    IF chars = <<>> THEN 0
    ELSE StringToNumber(SubSeq(chars, 1, Len(chars) - 1)) * 10
             + (CHOOSE d \in 0..9 : DigitChars[d + 1] = chars[Len(chars)])

\* the points of a suggested segment; the suggestions count 'BULL' as 50
SegmentPoints(label) ==
    IF label = <<"B", "U", "L", "L">> THEN 50
    ELSE (CASE label[1] = "S" -> 1 [] label[1] = "D" -> 2 [] label[1] = "T" -> 3)
             * StringToNumber(Tail(label))

\* C19: for every score in 1..170 and every dartsLeft in 1..3, a non-null
\* result of getCheckoutSuggestion is a finishing path: it has at most
\* dartsLeft segments, the points of its segments sum to the score, and its
\* last segment is a double or the bullseye.
C19_SuggestionIsFinishingPath ==
    (probe.called /\ probe.score \in 1..170 /\ ~probe.out.isNull) =>
        LET path == probe.out.path
        IN /\ Len(path) >= 1 /\ Len(path) <= probe.dartsLeft
           /\ SumNumbers([i \in 1..Len(path) |-> SegmentPoints(path[i])]) = probe.score
           /\ path[Len(path)][1] = "D" \/ path[Len(path)] = <<"B", "U", "L", "L">>

----------------------------------------------------------------------------
----------------------------------------------------------------------------
\* the players holding a throw with the given id in history / in currentTurn
HistoryHolders(m, throwId) ==
    {i \in 1..Len(m.players) :
        \E k \in 1..Len(m.players[i].history) : m.players[i].history[k].id = throwId}

TurnHolders(m, throwId) ==
    {i \in 1..Len(m.players) :
        \E k \in 1..Len(m.players[i].currentTurn) :
            m.players[i].currentTurn[k].id = throwId}

(* C26: correctThrow is a point-fix on the committed history.  With an id  *)
(* no history holds (unknown, or of a throw still in currentTurn) it fails *)
(* as not found and the match is unchanged.  Otherwise it replaces the     *)
(* segment and score of that throw, changes its owner's score by exactly   *)
(* oldScore - newScore, and leaves all else as it was: the other players,  *)
(* the active player, the round, the leg and the state.                    *)
C26_CorrectThrowIsPointFix ==
    [][(result'.op = "correctThrow" /\ HasMatch) =>
          LET a == result'.args
              holders == HistoryHolders(match, a.throwId)
          IN IF holders = {}
             THEN /\ ~result'.ok
                  /\ result'.error = "NotFound"
                  /\ match' = match
             ELSE \E i \in holders :
                  \E k \in 1..Len(match.players[i].history) :
                     LET old == match.players[i].history[k]
                     IN /\ old.id = a.throwId
                        /\ result'.ok
                        /\ match' =
                              [match EXCEPT
                                  !.players[i].history[k].segment = a.segment,
                                  !.players[i].history[k].score = a.score,
                                  !.players[i].score = @ + old.score - a.score]]_vars

\* a committed throw was corrected to another score
C26_Witness ==
    /\ result.op = "correctThrow"
    /\ result.ok
    /\ \E i \in HistoryHolders(match, result.args.throwId) :
           match.players[i].score # match.players[i].originalScore

(* C27: the validation correctThrow returns is that of the corrected dart  *)
(* against the score its player held just before the original throw.      *)
(* Stated where that score is known: the corrected throw is the player's   *)
(* only throw of leg 1, so the score before it was the starting score.     *)
C27_CorrectThrowValidatesAgainstPriorScore ==
    [][(result'.op = "correctThrow" /\ result'.ok /\ match.currentLeg = 1) =>
          \A i \in HistoryHolders(match, result'.args.throwId) :
             (Len(match.players[i].history) = 1
                  /\ match.players[i].currentTurn = <<>>) =>
             LET atThatPoint ==
                     validateX01Throw(match.settings.startingScore,
                                      result'.args.segment, result'.args.score,
                                      match.players[i].history[1].throwIndex - 1,
                                      match.settings)
             IN /\ result'.validation.bust = atThatPoint.bust
                /\ result'.validation.gameShot = atThatPoint.gameShot]_vars

(* C30: no error is swallowed.  Every mutating call made while no match is *)
(* loaded (createMatch apart, which loads one) fails as not found, and     *)
(* endMatch given a winningPlayerId that is no player of the match fails.  *)
C30_NoErrorIsSwallowed ==
    [][/\ (~HasMatch /\ result'.op # "createMatch") =>
              (~result'.ok /\ result'.error = "NotFound")
       /\ (/\ HasMatch
           /\ result'.op = "endMatch"
           /\ result'.playerId # 0
           /\ findPlayerIndex(match.players, result'.playerId) = -1) =>
              ~result'.ok]_vars

----------------------------------------------------------------------------
\* the call at place i of `calls` takes the step: it goes on or returns
Stepped(i) ==
    \/ /\ Len(calls') = Len(calls)
       /\ calls'[i] # calls[i]
    \/ /\ Len(calls') < Len(calls)
       /\ calls' = SubSeq(calls, 1, i - 1) \o SubSeq(calls, i + 1, Len(calls))

\* the step adds rows of a snapshot of the match to the database
SnapshotWritten ==
    \/ db'.matches # db.matches
    \/ db'.matchPlayers # db.matchPlayers
    \/ db'.legStarters # db.legStarters

\* the step is one of an autosave tick, and writes
AutosaveWrites ==
    \E i \in 1..Len(calls) :
        calls[i].op = "autosave" /\ Stepped(i) /\ SnapshotWritten

\* the step emits matchStateAutosaved with isAutosave true
AutosaveEmits ==
    \E k \in (Len(emitted) + 1)..Len(emitted') :
        emitted'[k] = Event("matchStateAutosaved", 1)

EndMatchCalledBefore == HasMatch /\ match.stats.ended

(* C22: endMatch moves the match to completed and cancels the autosave     *)
(* timer, and once endMatch has been called no autosave tick writes state  *)
(* or emits its notification any more.                                     *)
C22_NoAutosaveAfterEndMatch ==
    [][/\ (result'.op = "endMatch" /\ result'.ok) =>
              (match'.state = "completed" /\ ~autosaveTimer')
       /\ EndMatchCalledBefore => (~AutosaveWrites /\ ~AutosaveEmits)]_vars

----------------------------------------------------------------------------
\* the step is an autosave tick issued when every earlier call has returned
\* and no write has failed: the state it persists is the one last persisted
TickRepeatsSave ==
    /\ calls = <<>>
    /\ db.failed = 0
    /\ db.matches # <<>>
    /\ Len(calls') = 1
    /\ calls'[1].op = "autosave"
    /\ calls'[1].awaiting = "matches"

(* C23: persisting the match state is idempotent: an autosave tick that    *)
(* follows an operation's save with no mutation in between builds the same *)
(* payload as that save and leaves the stored data as the save left it.    *)
C23_PersistIsIdempotent ==
    [][/\ TickRepeatsSave => calls'[1].params = db.matches[Len(db.matches)]
       /\ db.failed = 0 => ~AutosaveWrites]_vars

----------------------------------------------------------------------------
\* the match without the fields that saving assigns
Unsaved(m) == [f \in DOMAIN m \ {"id", "timestamp", "isAutosaved"} |-> m[f]]

\* the event an operation emits last, before it returns
EventOf(op) ==
    CASE op = "startMatch" -> "matchStateChanged"
      [] op = "endWarmup" -> "bullshotStarted"
      [] op = "setBullWinner" -> "matchStarted"
      [] op = "processThrow" -> "throwProcessed"
      [] op = "correctThrow" -> "throwCorrected"
      [] op = "manualPlayerSwitch" -> "playerChanged"
      [] op = "endMatch" -> "matchEnded"
      [] OTHER -> "none"

\* the step is the return of the call at place i of `calls`
Returns(i) == Stepped(i) /\ Len(calls') < Len(calls)

(* C24: a database run that completes or fails while processThrow,         *)
(* correctThrow or a phase transition awaits it leaves the mutation the    *)
(* call has made in place, and when the call returns it returns its normal *)
(* result and has emitted its event, whichever of its writes have failed.  *)
C24_FailedWriteKeepsTransition ==
    [][\A i \in 1..Len(calls) :
          /\ Stepped(i) => Unsaved(match') = Unsaved(match)
          /\ (Returns(i) /\ EventOf(calls[i].op) # "none") =>
                 /\ result' = calls[i].ret
                 /\ result'.ok
                 /\ emitted' # <<>>
                 /\ emitted'[Len(emitted')].name = EventOf(calls[i].op)]_vars

\* a write of processThrow has failed and the call has returned its result
C24_Witness ==
    /\ db.failed > 0
    /\ calls = <<>>
    /\ result.op = "processThrow"
    /\ result.ok
    /\ match.players[findPlayerIndex(match.players, result.playerId) + 1].history
           \o match.players[findPlayerIndex(match.players, result.playerId) + 1].currentTurn
           # <<>>
    /\ emitted[Len(emitted)] = Event("throwProcessed", result.throwData.id)

----------------------------------------------------------------------------
\* what of a match the snapshot has to keep; of a throw, its segment and
\* score (its id and throwIndex are left out of the comparison)
Kept(m) ==
    [settings |-> m.settings, legsToWin |-> m.legsToWin,
     currentLeg |-> m.currentLeg, round |-> m.round,
     legStarters |-> m.legStarters, stats |-> m.stats,
     players |-> [i \in 1..Len(m.players) |->
                     [id |-> m.players[i].id,
                      score |-> m.players[i].score,
                      isActive |-> m.players[i].isActive,
                      isWinner |-> m.players[i].isWinner,
                      history |-> [k \in 1..Len(m.players[i].history) |->
                                      <<m.players[i].history[k].segment,
                                        m.players[i].history[k].score>>]]]]

\* a fresh instance has loaded the latest snapshot, written with no failure
\* by the last call made: the snapshot of the match as it is in memory
LatestLoaded ==
    /\ probe.called
    /\ db.failed = 0
    /\ probe.matchId = Len(db.matches)

(* C25: the snapshot round-trips: loadMatch of the latest snapshot on a    *)
(* fresh instance succeeds and gives the settings, legsToWin, currentLeg,  *)
(* round, leg starters, per-player score / isActive / isWinner, throw      *)
(* history and statistics of the in-memory match that was saved.           *)
C25_SnapshotRoundTrips ==
    LatestLoaded => (probe.error = "none" /\ Kept(probe.out) = Kept(match))

----------------------------------------------------------------------------
\* a mutating call (any call but the autosave tick) awaits a database run
MutatingCallAwaits == \E i \in 1..Len(calls) : calls[i].op # "autosave"

\* the leg-starter rows written so far for the snapshot with id k
StarterRowsOf(database, k) == {r \in database.legStarters : r.matchId = k}

\* a snapshot is of one state of the match: in every state of the match
\* there is one leg starter per leg begun, so a snapshot holds no starter
\* of a leg after the current leg of its match row
OfOneState(database) ==
    \A k \in 1..Len(database.matches) :
        \A r \in StarterRowsOf(database, k) :
            r.legNumber <= database.matches[k].currentLeg

(* C28: mutating calls are serialized with their persistence: while a call *)
(* awaits its writes no other call mutates the match, and every snapshot   *)
(* in storage (match row, player rows, leg-starter rows) is that of one    *)
(* single in-memory state.                                                 *)
C28_MutationsAreSerialized ==
    [][/\ MutatingCallAwaits => Unsaved(match') = Unsaved(match)
       /\ OfOneState(db) => OfOneState(db')]_vars

----------------------------------------------------------------------------
\* the places of `emitted` that hold a throwProcessed event
ThrowProcessedAt == {k \in 1..Len(emitted) : emitted[k].name = "throwProcessed"}

(* C29: the throwProcessed events are emitted in the order in which the    *)
(* throws were applied (a throw applied later has the later Date.now() as  *)
(* its id), also when the second processThrow is called while the first    *)
(* still awaits its writes.                                                *)
C29_ThrowProcessedInOrderApplied ==
    \A j, k \in ThrowProcessedAt :
        j < k => emitted[j].detail < emitted[k].detail

----------------------------------------------------------------------------
\* the step ends a turn without a leg win: the third dart of a turn, or
\* manualPlayerSwitch in an active match
ThirdDartReturns ==
    /\ ProcessThrowReturns
    /\ result'.throwData.throwIndex = 3
    /\ ~result'.legWon

ManualSwitchReturns ==
    /\ result'.op = "manualPlayerSwitch"
    /\ result'.ok
    /\ clock' # clock
    /\ HasMatch
    /\ match.state = "active"

\* what the rotation has to leave: `thrown` is the dart of this call, if any
Rotated(thrown) ==
    LET idx == ActiveIdx(match)
        before == match.players[idx]
        after == match'.players[idx]
    IN /\ after.currentTurn = <<>>
       /\ after.history = before.history \o before.currentTurn \o thrown
       /\ after.originalScore = after.score
       /\ ~after.isActive
       /\ match'.activePlayerIndex =
              (match.activePlayerIndex + 1) % Len(match.players)
       /\ ActivePlayers(match') = {ActiveIdx(match')}

RotationCommitsTurn_SeveralPlayers ==
    [][(HasMatch /\ Len(match.players) >= 2) =>
           /\ ThirdDartReturns => Rotated(<<result'.throwData>>)
           /\ ManualSwitchReturns => Rotated(<<>>)]_vars

----------------------------------------------------------------------------
\* the step is a processThrow that won the leg but not the match
LegWonNotMatch ==
    /\ ProcessThrowReturns
    /\ result'.legWon
    /\ ~result'.matchWon

(* C32: after a leg-winning throw that does not win the match the new leg  *)
(* starts clean: currentLeg is one more, every player has score and        *)
(* originalScore at the starting score, isWinner false and an empty        *)
(* currentTurn, round is 1, the new starter is the only active player and  *)
(* activePlayerIndex points at them, and legStarters has currentLeg        *)
(* entries, the earlier ones unchanged.                                    *)
C32_NextLegStartsClean ==
    [][LegWonNotMatch =>
          /\ match'.currentLeg = match.currentLeg + 1
          /\ \A i \in 1..Len(match'.players) :
                 /\ match'.players[i].score = match'.settings.startingScore
                 /\ match'.players[i].originalScore = match'.settings.startingScore
                 /\ ~match'.players[i].isWinner
                 /\ match'.players[i].currentTurn = <<>>
          /\ match'.round = 1
          /\ Len(match'.legStarters) = match'.currentLeg
          /\ SubSeq(match'.legStarters, 1, match.currentLeg) = match.legStarters
          /\ ActivePlayers(match') = {ActiveIdx(match')}
          /\ match'.players[ActiveIdx(match')].id
                 = match'.legStarters[match'.currentLeg]]_vars

\* a leg of a match of two players has been won with the second dart of a
\* turn, after a scoring first dart, and the match goes on in leg 2
C32_Witness ==
    /\ HasMatch
    /\ Len(match.players) >= 2
    /\ result.op = "processThrow" /\ result.ok
    /\ result.legWon /\ ~result.matchWon
    /\ result.throwData.throwIndex = 2
    /\ match.currentLeg = 2
    /\ match.state = "active"

----------------------------------------------------------------------------
\* the player who started the current leg
LegStarter(m) == m.legStarters[m.currentLeg]

(* C33: round counts the full rotations of the current leg, whichever      *)
(* player started it: when a turn is completed, round goes up by one if    *)
(* every player has then had a turn in the round, i.e. if the next player  *)
(* is the starter of the leg, and stays as it is otherwise.                *)
C33_RoundCountsRotations ==
    [][ThirdDartReturns =>
          match'.round =
              IF match'.players[ActiveIdx(match')].id = LegStarter(match)
              THEN match.round + 1
              ELSE match.round]_vars

----------------------------------------------------------------------------
\* the ton-tier counters of a player's statistics
Tons(stats) ==
    [tonPlus |-> stats.tonPlus, tonFortyPlus |-> stats.tonFortyPlus,
     tonEightyPlus |-> stats.tonEightyPlus]

\* the counters after a completed turn with the given scored total
TonsAfterTurn(stats, total, busted) ==
    [tonPlus |-> stats.tonPlus
                    + (IF ~busted /\ total \in 100..139 THEN 1 ELSE 0),
     tonFortyPlus |-> stats.tonFortyPlus
                    + (IF ~busted /\ total \in 140..179 THEN 1 ELSE 0),
     tonEightyPlus |-> stats.tonEightyPlus
                    + (IF ~busted /\ total = 180 THEN 1 ELSE 0)]

\* the step is a processThrow that completes a turn: the third dart, or the
\* dart that wins the leg
TurnCompleted == ProcessThrowReturns /\ (ThirdDartReturns \/ result'.legWon)

\* no throw of the player has been taken back (as a miss) by correctThrow,
\* so that originalScore is the score the player began the turn with
Uncorrected(player) ==
    \A k \in 1..Len(player.history) : player.history[k].segment # MISS

\* a dart of the turn so far was a bust: the score is then back at
\* originalScore, and not the darts of the turn below it
BustedEarlier(player) ==
    player.score # player.originalScore - SumScores(player.currentTurn)

(* C34: the ton-tier counters follow the scored total of each completed    *)
(* turn: a total of 100-139 adds one to tonPlus, 140-179 to tonFortyPlus,  *)
(* 180 to tonEightyPlus, once per turn, also for the turn that wins a leg; *)
(* a turn in which a dart busted adds to none of them; a dart that does    *)
(* not complete a turn changes none of them.                               *)
C34_TonTiersFollowTurnTotal ==
    [][ProcessThrowReturns =>
          LET before == match.players[ActiveIdx(match)]
              id == before.id
              total == SumScores(before.currentTurn) + result'.throwData.score
              busted == result'.bust \/ BustedEarlier(before)
          IN Uncorrected(before) =>
                Tons(match'.stats.players[id]) =
                    IF TurnCompleted
                    THEN TonsAfterTurn(match.stats.players[id], total, busted)
                    ELSE Tons(match.stats.players[id])]_vars

(* C36: in every reachable state each player's score is between 0 and      *)
(* settings.startingScore, and a score of 0 is held only by a player       *)
(* marked isWinner in a completed match.                                    *)
C36_ScoreWithinStartingScore ==
    HasMatch =>
        \A i \in 1..Len(match.players) :
            LET player == match.players[i] IN
            /\ 0 <= player.score
            /\ player.score <= match.settings.startingScore
            /\ player.score = 0 => (player.isWinner /\ match.state = "completed")

(* C37: in every reachable state each player whose currentTurn is empty    *)
(* has originalScore equal to score, also after correctThrow has adjusted  *)
(* the player's score.                                                      *)
C37_OriginalScoreAtTurnStart ==
    HasMatch =>
        \A i \in 1..Len(match.players) :
            match.players[i].currentTurn = <<>> =>
                match.players[i].originalScore = match.players[i].score

\* the player at index i of m holds the throw id exactly once, in history or
\* in currentTurn
HeldOnce(m, i, id) ==
    Cardinality({k \in 1..Len(ThrowsOf(m.players[i])) : ThrowsOf(m.players[i])[k].id = id}) = 1

\* the index of the player processThrow has returned a throw for
ThrowerIdx == CHOOSE i \in 1..Len(match.players) : match.players[i].id = result'.throwData.playerId

(* C38: no accepted throw is ever lost: the throw processThrow returns a   *)
(* result for is in its player's currentTurn or history, once, and every   *)
(* throw a player holds before a call the player holds once after it,       *)
(* the throws of a leg-winning or match-winning turn included.              *)
C38_NoThrowLost ==
    [][/\ ProcessThrowReturns => HeldOnce(match', ThrowerIdx, result'.throwData.id)
       /\ (HasMatch /\ match' # NoMatch) =>
              \A i \in 1..Len(match.players) :
                  \A k \in 1..Len(ThrowsOf(match.players[i])) :
                      HeldOnce(match', i, ThrowsOf(match.players[i])[k].id)]_vars

(* C40: in every reachable state in which the match state is completed,    *)
(* whether reached by endMatch or by a match-winning processThrow, no      *)
(* autosave timer is running.                                               *)
C40_NoAutosaveWhenCompleted ==
    (HasMatch /\ match.state = "completed") => ~autosaveTimer

\* the options of a leg played double out
DoubleOutOptions ==
    [doubleIn |-> FALSE, doubleOut |-> TRUE, masterOut |-> FALSE,
     startingScore |-> 501, checkoutSuggestions |-> TRUE]

\* a player on score throws path[k], path[k + 1], ... as darts k, k + 1, ...
\* of the turn, each with its standard points: no dart is a bust and the
\* last one is a game shot
RECURSIVE FinishesLeg(_, _, _)
FinishesLeg(score, path, k) ==
    LET validation == validateX01Throw(score, path[k], SegmentPoints(path[k]), k - 1, DoubleOutOptions)
    IN /\ validation.valid /\ ~validation.bust
       /\ IF k = Len(path) THEN validation.gameShot
          ELSE ~validation.gameShot /\ FinishesLeg(validation.newScore, path, k + 1)

(* C39: for every score and dartsLeft for which getCheckoutSuggestion      *)
(* returns a path, a player on that score who throws the suggested         *)
(* segments in order, each with its standard points and BULL as 50, under  *)
(* doubleOut gets no bust on any dart and a game shot on the last dart.    *)
C39_SuggestionPassesValidator ==
    (probe.called /\ ~probe.out.isNull) => FinishesLeg(probe.score, probe.out.path, 1)

\* a throw is applied: processThrow has run up to its first await
ThrowApplied ==
    /\ clock' # clock
    /\ Len(calls') > Len(calls)
    /\ calls'[Len(calls')].op = "processThrow"

\* currentTurn and history of every player, and whose turn it is
TurnOrder(m) ==
    [players |-> [i \in 1..Len(m.players) |->
                     <<m.players[i].currentTurn, m.players[i].history>>],
     activePlayerIndex |-> m.activePlayerIndex]

\* every throw a player of m holds carries the id of that player
HeldByThrower(m) ==
    \A i \in 1..Len(m.players) :
        \A k \in 1..Len(ThrowsOf(m.players[i])) :
            ThrowsOf(m.players[i])[k].playerId = m.players[i].id

(* C35: in every interleaving of processThrow calls suspended at their     *)
(* database runs and of autosave ticks, no currentTurn holds more than 3   *)
(* throws; a throw is applied for the player active at that moment and is  *)
(* added to the throws of that player (a leg-winning turn is cleared by    *)
(* the new leg), no player holds a throw of another; the third dart of a   *)
(* turn moves activePlayerIndex by one, a leg-winning dart hands over to   *)
(* the starter of the new leg, and nothing else moves the turn order: not  *)
(* a tick, not a call that goes on after a database run.                   *)
C35_TurnOrderUnderInterleaving ==
    [][/\ \A i \in 1..Len(match'.players) : Len(match'.players[i].currentTurn) <= 3
       /\ HeldByThrower(match')
       /\ IF ThrowApplied
          THEN LET ret == calls'[Len(calls')].ret
                   a == ActiveIdx(match)
                   n == Len(match.players)
               IN /\ ret.throwData.playerId = match.players[a].id
                  /\ ~ret.legWon =>
                         ThrowsOf(match'.players[a])
                             = ThrowsOf(match.players[a]) \o <<ret.throwData>>
                  /\ \A j \in (1..n) \ {a} :
                         /\ match'.players[j].history = match.players[j].history
                         /\ match'.players[j].currentTurn
                                \in {match.players[j].currentTurn, <<>>}
                  /\ match'.activePlayerIndex =
                         IF ret.legWon /\ ~ret.matchWon
                         THEN findPlayerIndex(match.players, LegStarter(match'))
                         ELSE IF ret.throwData.throwIndex = 3 /\ ~ret.legWon
                         THEN (match.activePlayerIndex + 1) % n
                         ELSE match.activePlayerIndex
          ELSE TurnOrder(match') = TurnOrder(match)]_vars

\* C35 is exercised: the third dart of a turn has been applied, and the
\* turn has passed to the next player, while the second dart's call and the
\* third dart's call both await the database
C35_Witness ==
    /\ Len(calls) = 2
    /\ calls[1].op = "processThrow" /\ calls[2].op = "processThrow"
    /\ calls[1].ret.throwData.throwIndex = 2
    /\ calls[2].ret.throwData.throwIndex = 3
    /\ \E i \in 1..Len(match.players) :
           /\ Len(match.players[i].history) = 3
           /\ match.players[i].currentTurn = <<>>
           /\ ~match.players[i].isActive

====
